---- MODULE Spec2Model ----
(***************************************************************************)
(* CasperFlow remittance contract: the escrow ledger of                   *)
(* contracts/src/{entry_points,storage,remittance,utils,errors}.rs.       *)
(*                                                                         *)
(* One action per contract entry point.  An entry point runs to completion *)
(* (the host executes one call at a time); runtime::revert aborts the call *)
(* and the host discards every effect of the aborted call, so a reverted   *)
(* call leaves the ledger and the purses as they were.  Variable last is    *)
(* the outcome the host reports for the deploy in progress; the host takes *)
(* the next deploy once that outcome is finalized (finalize_deploy).       *)
(***************************************************************************)
EXTENDS Integers, Sequences, FiniteSets, TLC

\* ------------------------------------------------------------------------
\* Bounds of the model
\* ------------------------------------------------------------------------
MaxRemittances == 1
MaxShared == 2
InitialBalance == 1000
AmountCeiling == 2000000000
MaxNested == 2
WordBits == 8

\* ------------------------------------------------------------------------
\* Program constants (errors.rs)
\* ------------------------------------------------------------------------
MAX_PURPOSE_LENGTH == 256
MAX_FEE_BPS == 500
DEFAULT_FEE_BPS == 50
BASIS_POINTS == 10000

\* ------------------------------------------------------------------------
\* Principals and inputs
\* ------------------------------------------------------------------------
ZeroAccount == 0
Accounts == {1, 2}
Callers == Accounts \cup {ZeroAccount}
Installer == 1
Escrow == -1
None == <<>>
Some(v) == <<v>>
IsNone(o) == o = <<>>
unwrap(o) == o[1]
unwrap_or(o, default) == IF o = <<>> THEN default ELSE o[1]

\* A text is a sequence of runs: n repetitions of the character ch
Run(ch, n) == [ch |-> ch, n |-> n]
Purposes == { <<>>, <<Run(" ", 2)>>,
              <<Run("a", MAX_PURPOSE_LENGTH - 1), Run(" ", 1)>>,
              <<Run("a", MAX_PURPOSE_LENGTH), Run(" ", 1)>> }
TargetAmounts == {0, 1000}
ContributionAmounts == {0, 500}
FeeInputs == {0, MAX_FEE_BPS, MAX_FEE_BPS + 1}
BlockTimes == {7}
RemittanceIds == 1..(MaxRemittances + MaxShared)

VARIABLES remittance_counter, remittances, contributions, contributors,
          refund_claimed, user_remittances, recipient_remittances,
          platform_fee_bps, fee_collector, contract_owner, is_paused,
          contract_purse, balances, outflow, last

ledger == <<remittance_counter, remittances, contributions, contributors,
            refund_claimed, user_remittances, recipient_remittances>>
config == <<platform_fee_bps, fee_collector, contract_owner, is_paused>>
purses == <<contract_purse, balances, outflow>>
store == <<ledger, config, purses>>
vars == <<store, last>>

\* ------------------------------------------------------------------------
\* Key construction (storage.rs): u64 and AccountHash rendered as text
\* ------------------------------------------------------------------------
Digit(d) == CASE d = 0 -> "0" [] d = 1 -> "1" [] d = 2 -> "2" [] d = 3 -> "3"
              [] d = 4 -> "4" [] d = 5 -> "5" [] d = 6 -> "6" [] d = 7 -> "7"
              [] d = 8 -> "8" [] d = 9 -> "9" [] d = 10 -> "a" [] d = 11 -> "b"
              [] d = 12 -> "c" [] d = 13 -> "d" [] d = 14 -> "e" [] d = 15 -> "f"

RECURSIVE u64_to_string(_)
u64_to_string(n) == IF n < 10 THEN <<Digit(n)>>
                    ELSE u64_to_string(n \div 10) \o <<Digit(n % 10)>>

\* Display of an AccountHash: fixed-width lower-case hex of its bytes
account_to_string(a) == <<Digit((a \div 16) % 16), Digit(a % 16)>>

remittance_key(id) == u64_to_string(id)
composite_key_without_id(remittance_id, contributor) == account_to_string(contributor)

composite_key(remittance_id, contributor) ==
    u64_to_string(remittance_id) \o <<"_">> \o account_to_string(contributor)

\* Dictionary primitives of the host: get yields None for an absent key
dictionary_get(dict, key) == IF key \in DOMAIN dict THEN Some(dict[key]) ELSE None
dictionary_put(dict, key, value) ==
    [k \in (DOMAIN dict) \cup {key} |-> IF k = key THEN value ELSE dict[k]]

EmptyDict == [k \in {} |-> None]

\* ------------------------------------------------------------------------
\* Checked U512 arithmetic; None stands for the overflow result
\* ------------------------------------------------------------------------
checked_add(a, b) == IF a + b > AmountCeiling THEN None ELSE Some(a + b)
checked_sub(a, b) == IF b > a THEN None ELSE Some(a - b)
checked_mul(a, b) == IF a * b > AmountCeiling THEN None ELSE Some(a * b)
checked_div(a, b) == IF b = 0 THEN None ELSE Some(a \div b)

\* ------------------------------------------------------------------------
\* remittance.rs
\* ------------------------------------------------------------------------
Remittance_new(id, creator, recipient, target_amount, purpose, created_at) ==
    [id |-> id, creator |-> creator, recipient |-> recipient,
     target_amount |-> target_amount, current_amount |-> 0,
     purpose |-> purpose, created_at |-> created_at,
     is_released |-> FALSE, is_cancelled |-> FALSE]

is_active_unless_released(r) == ~r.is_released

is_active(r) == ~r.is_released /\ ~r.is_cancelled

is_target_met_strict(r) == r.current_amount > r.target_amount

is_target_met_nonzero(r) == r.current_amount > 0

is_target_met(r) == r.current_amount >= r.target_amount

\* A u64 of the program is a word of WordBits bits here
U64_MAX == 2 ^ WordBits - 1
Min(a, b) == IF a < b THEN a ELSE b

\* U512::as_u64: the value if it fits a word; otherwise the conversion either
\* panics (None) or keeps the low word, depending on the build of the integer
\* library
as_u64(v, overflow_panics) ==
    IF v <= U64_MAX THEN Some(v)
    ELSE IF overflow_panics THEN None
    ELSE Some(v % (U64_MAX + 1))

saturating_mul(a, b) == Min(a * b, U64_MAX)

remaining_amount_unsaturated(r) == r.target_amount - r.current_amount

remaining_amount(r) ==
    IF r.current_amount >= r.target_amount THEN 0
    ELSE r.target_amount - r.current_amount

\* None stands for the panic of as_u64
progress_percentage(r, overflow_panics) ==
    LET current_u64 == as_u64(r.current_amount, overflow_panics)
        target_u64 == as_u64(r.target_amount, overflow_panics)
    IN
    IF r.target_amount = 0 THEN Some(100)
    ELSE IF IsNone(current_u64) \/ IsNone(target_u64) THEN None
    ELSE IF unwrap(target_u64) = 0 THEN Some(100)
    ELSE Some(Min(saturating_mul(unwrap(current_u64), 100) \div unwrap(target_u64), 100))

\* ------------------------------------------------------------------------
\* storage.rs readers
\* ------------------------------------------------------------------------
get_remittance(id) == dictionary_get(remittances, remittance_key(id))

get_contribution(remittance_id, contributor) ==
    unwrap_or(dictionary_get(contributions, composite_key(remittance_id, contributor)), 0)

is_refund_claimed(remittance_id, contributor) ==
    unwrap_or(dictionary_get(refund_claimed, composite_key(remittance_id, contributor)), FALSE)

get_contributors(remittance_id) ==
    unwrap_or(dictionary_get(contributors, remittance_key(remittance_id)), <<>>)

\* ------------------------------------------------------------------------
\* utils.rs
\* ------------------------------------------------------------------------
validate_account_hash(account) == account # ZeroAccount
validate_non_zero_amount_lenient(amount) == amount >= 0

validate_non_zero_amount(amount) == amount # 0

RECURSIVE str_len(_)
str_len(s) == IF s = <<>> THEN 0 ELSE Head(s).n + str_len(Tail(s))
validate_string_length_exclusive(s, max_length) == str_len(s) < max_length

validate_string_length(s, max_length) == str_len(s) <= max_length

trim_is_empty(s) == \A i \in 1..Len(s) : s[i].ch = " " \/ s[i].n = 0

calculate_fee_rounded_up(amount, fee_bps) ==
    LET product == checked_mul(amount, fee_bps)
    IN IF IsNone(product) THEN None
       ELSE checked_div(unwrap(product) + BASIS_POINTS - 1, BASIS_POINTS)

calculate_fee(amount, fee_bps) ==
    LET product == checked_mul(amount, fee_bps)
    IN IF IsNone(product) THEN None ELSE checked_div(unwrap(product), BASIS_POINTS)

\* ------------------------------------------------------------------------
\* Outcome of a call.  steps lists the storage writes, transfer requests and
\* notifications the call issued after its checks, in program order (those of
\* a reverted call are discarded by the host); transfers lists the value
\* transfers that took effect
\* ------------------------------------------------------------------------
Call(op, caller, id, amount) ==
    [op |-> op, caller |-> caller, id |-> id, amount |-> amount,
     result |-> "Ok", ret |-> 0, steps |-> <<>>, transfers |-> <<>>, event |-> None]

Issued(call, steps) == [call EXCEPT !.steps = steps]

Idle == Call("idle", ZeroAccount, 0, 0)

\* runtime::revert: the call ends with the error and none of its effects persist
Revert(call, error) ==
    /\ last' = [call EXCEPT !.result = error]
    /\ UNCHANGED store

\* The host finalizes the deploy and is ready for the next one
finalize_deploy ==
    /\ last # Idle
    /\ last' = Idle
    /\ UNCHANGED store

\* storage.rs initialize_contract, run once by the installer
Init ==
    /\ remittance_counter = None
    /\ remittances = EmptyDict
    /\ contributions = EmptyDict
    /\ contributors = EmptyDict
    /\ refund_claimed = EmptyDict
    /\ user_remittances = EmptyDict
    /\ recipient_remittances = EmptyDict
    /\ platform_fee_bps = 50
    /\ contract_owner = Installer
    /\ fee_collector = Installer
    /\ is_paused = FALSE
    /\ contract_purse = 0
    /\ balances = [a \in Callers |-> IF a = ZeroAccount THEN 0
                                   ELSE IF a = Installer THEN InitialBalance
                                   ELSE InitialBalance \div 2]
    /\ outflow = [release |-> EmptyDict, refund |-> EmptyDict]
    /\ last = Idle

\* ------------------------------------------------------------------------
\* The value-transfer primitive of the host: all-or-nothing, fails when the
\* source purse holds less than the amount or when the host refuses it
\* ------------------------------------------------------------------------
Transfer(from, to, amount) == [from |-> from, to |-> to, amount |-> amount]

transfer_from_purse(source_balance, amount, host_ok) ==
    IF host_ok /\ source_balance >= amount THEN Some(source_balance - amount) ELSE None

\* utils.rs transfer_cspr: yields the balance left in the contract purse
transfer_cspr(purse_balance, amount, host_ok) ==
    IF amount = 0 THEN Some(purse_balance)
    ELSE transfer_from_purse(purse_balance, amount, host_ok)

\* utils.rs receive_payment: yields the balance left in the caller's purse, None
\* for its Err results (contribute_entry rejects a zero amount before calling it,
\* so the only Err that reaches the caller is TransferFailed)
receive_payment(caller_balance, amount, host_ok) ==
    IF ~validate_non_zero_amount(amount) THEN None
    ELSE transfer_from_purse(caller_balance, amount, host_ok)

Credit(bal, to, amount) == [bal EXCEPT ![to] = @ + amount]

\* Record of what has left the contract purse, per remittance and per claimant
released_total(id) == unwrap_or(dictionary_get(outflow.release, remittance_key(id)), 0)
refunded_total(id, p) == unwrap_or(dictionary_get(outflow.refund, composite_key(id, p)), 0)

\* ------------------------------------------------------------------------
\* storage.rs writers
\* ------------------------------------------------------------------------
\* get_next_remittance_id: the id after the stored counter (an unset counter
\* reads as 0); the new id is also the new value of the counter
get_next_remittance_id_stuck(counter) ==
    IF unwrap_or(counter, 0) = 0 THEN 1 ELSE unwrap_or(counter, 0)

get_next_remittance_id_skipping(counter) == unwrap_or(counter, 0) + 2

get_next_remittance_id(counter) == unwrap_or(counter, 0) + 1

store_remittance(dict, remittance) ==
    dictionary_put(dict, remittance_key(remittance.id), remittance)

store_contribution_overwrite(dict, remittance_id, contributor, amount) ==
    Some(dictionary_put(dict, composite_key(remittance_id, contributor), amount))

store_contribution(dict, remittance_id, contributor, amount) ==
    LET key == composite_key(remittance_id, contributor)
        existing == unwrap_or(dictionary_get(dict, key), 0)
        new_amount == checked_add(existing, amount)
    IN IF IsNone(new_amount) THEN None
       ELSE Some(dictionary_put(dict, key, unwrap(new_amount)))

Contains(seq, x) == \E i \in 1..Len(seq) : seq[i] = x

add_contributor_always(dict, remittance_id, contributor) ==
    LET key == remittance_key(remittance_id)
    IN dictionary_put(dict, key,
                      Append(unwrap_or(dictionary_get(dict, key), <<>>), contributor))

add_contributor(dict, remittance_id, contributor) ==
    LET key == remittance_key(remittance_id)
        existing == unwrap_or(dictionary_get(dict, key), <<>>)
    IN IF ~Contains(existing, contributor)
       THEN dictionary_put(dict, key, Append(existing, contributor))
       ELSE dict

mark_refund_claimed_all(dict, remittance_id, contributor) ==
    [k \in (DOMAIN dict) \cup {composite_key(remittance_id, a) : a \in Accounts} |->
        IF \E a \in Accounts : k = composite_key(remittance_id, a) THEN TRUE ELSE dict[k]]

mark_refund_claimed_unset(dict, remittance_id, contributor) ==
    dictionary_put(dict, composite_key(remittance_id, contributor), FALSE)

mark_refund_claimed(dict, remittance_id, contributor) ==
    dictionary_put(dict, composite_key(remittance_id, contributor), TRUE)

add_user_remittance_replacing(dict, user, remittance_id) ==
    dictionary_put(dict, account_to_string(user), <<remittance_id>>)

add_user_remittance(dict, user, remittance_id) ==
    LET key == account_to_string(user)
        existing == unwrap_or(dictionary_get(dict, key), <<>>)
    IN dictionary_put(dict, key, Append(existing, remittance_id))

add_recipient_remittance(dict, recipient, remittance_id) ==
    LET key == account_to_string(recipient)
        existing == unwrap_or(dictionary_get(dict, key), <<>>)
    IN dictionary_put(dict, key, Append(existing, remittance_id))

\* ------------------------------------------------------------------------
\* entry_points.rs: create_remittance
\* ------------------------------------------------------------------------
create_remittance_checks_any_target(caller, recipient, target_amount, purpose) ==
    IF is_paused THEN "ContractPaused"
    ELSE IF ~validate_account_hash(recipient) THEN "InvalidAccountHash"
    ELSE IF ~validate_account_hash(caller) THEN "InvalidAccountHash"
    ELSE IF ~validate_string_length(purpose, MAX_PURPOSE_LENGTH) THEN "PurposeMaxLength"
    ELSE IF trim_is_empty(purpose) THEN "PurposeMaxLength"
    ELSE "Ok"

create_remittance_checks(caller, recipient, target_amount, purpose) ==
    IF is_paused THEN "ContractPaused"
    ELSE IF ~validate_account_hash(recipient) THEN "InvalidAccountHash"
    ELSE IF ~validate_account_hash(caller) THEN "InvalidAccountHash"
    ELSE IF target_amount = 0 THEN "InvalidTargetAmount"
    ELSE IF ~validate_string_length(purpose, MAX_PURPOSE_LENGTH) THEN "PurposeMaxLength"
    ELSE IF trim_is_empty(purpose) THEN "PurposeMaxLength"
    ELSE "Ok"

create_remittance_entry(caller, recipient, target_amount, purpose, now) ==
    LET call == Call("create_remittance", caller, 0, target_amount)
        checks == create_remittance_checks(caller, recipient, target_amount, purpose)
        remittance_id == get_next_remittance_id(remittance_counter)
        remittance == Remittance_new(remittance_id, caller, recipient,
                                     target_amount, purpose, now)
    IN
    /\ last = Idle
    /\ IF checks # "Ok" THEN Revert(call, checks)
       ELSE
           /\ remittance_counter' = Some(remittance_id)
           /\ remittances' = store_remittance(remittances, remittance)
           /\ user_remittances' = add_user_remittance(user_remittances, caller, remittance_id)
           /\ recipient_remittances' =
                 add_recipient_remittance(recipient_remittances, recipient, remittance_id)
           /\ last' = [call EXCEPT
                          !.id = remittance_id, !.ret = remittance_id,
                          !.steps = <<"get_next_remittance_id", "store_remittance",
                                      "add_user_remittance", "add_recipient_remittance",
                                      "emit", "ret">>,
                          !.event = Some([name |-> "RemittanceCreated",
                                          remittance_id |-> remittance_id,
                                          creator |-> caller, recipient |-> recipient,
                                          target_amount |-> target_amount,
                                          purpose |-> purpose])]
           /\ UNCHANGED <<contributions, contributors, refund_claimed, config, purses>>

\* ------------------------------------------------------------------------
\* entry_points.rs: contribute
\* ------------------------------------------------------------------------
contribute_checks_ungated(caller, remittance_id, amount) ==
    LET found == get_remittance(remittance_id)
    IN
    IF ~validate_non_zero_amount(amount) THEN "InvalidContributionAmount"
    ELSE IF IsNone(found) THEN "RemittanceNotFound"
    ELSE IF unwrap(found).is_released THEN "AlreadyReleased"
    ELSE IF unwrap(found).is_cancelled THEN "RemittanceCancelled"
    ELSE "Ok"

contribute_checks_until_target(caller, remittance_id, amount) ==
    LET found == get_remittance(remittance_id)
    IN
    IF is_paused THEN "ContractPaused"
    ELSE IF ~validate_non_zero_amount(amount) THEN "InvalidContributionAmount"
    ELSE IF IsNone(found) THEN "RemittanceNotFound"
    ELSE IF unwrap(found).is_released THEN "AlreadyReleased"
    ELSE IF unwrap(found).is_cancelled THEN "RemittanceCancelled"
    ELSE IF is_target_met(unwrap(found)) THEN "InvalidContributionAmount"
    ELSE "Ok"

contribute_checks(caller, remittance_id, amount) ==
    LET found == get_remittance(remittance_id)
        remittance == unwrap(found)
    IN
    IF is_paused THEN "ContractPaused"
    ELSE IF ~validate_non_zero_amount(amount) THEN "InvalidContributionAmount"
    ELSE IF IsNone(found) THEN "RemittanceNotFound"
    ELSE IF ~is_active(remittance) /\ remittance.is_released THEN "AlreadyReleased"
    ELSE IF ~is_active(remittance) /\ remittance.is_cancelled THEN "RemittanceCancelled"
    ELSE "Ok"

\* The notification of contribute_entry, built from the record it has just stored
ContributionMade_before_update(remittance_id, contributor, amount, remittance) ==
    [name |-> "ContributionMade", remittance_id |-> remittance_id,
     contributor |-> contributor, amount |-> amount,
     new_total |-> remittance.current_amount - amount]

ContributionMade(remittance_id, contributor, amount, remittance) ==
    [name |-> "ContributionMade", remittance_id |-> remittance_id,
     contributor |-> contributor, amount |-> amount,
     new_total |-> remittance.current_amount]

contribute_entry_ignoring_payment(caller, remittance_id, amount, host_ok) ==
    LET call == Call("contribute", caller, remittance_id, amount)
        checks == contribute_checks(caller, remittance_id, amount)
        remittance == unwrap(get_remittance(remittance_id))
        paid == receive_payment(balances[caller], amount, host_ok)
        updated == [remittance EXCEPT !.current_amount = @ + amount]
    IN
    /\ last = Idle
    /\ IF checks # "Ok" THEN Revert(call, checks)
       ELSE
           /\ balances' = IF IsNone(paid) THEN balances
                          ELSE [balances EXCEPT ![caller] = unwrap(paid)]
           /\ contract_purse' = IF IsNone(paid) THEN contract_purse
                                ELSE contract_purse + amount
           /\ remittances' = store_remittance(remittances, updated)
           /\ contributions' =
                 unwrap(store_contribution(contributions, remittance_id, caller, amount))
           /\ contributors' = add_contributor(contributors, remittance_id, caller)
           /\ last' = [call EXCEPT
                          !.steps = <<"receive_payment", "store_remittance",
                                      "store_contribution", "add_contributor", "emit">>,
                          !.transfers = IF IsNone(paid) THEN <<>>
                                        ELSE <<Transfer(caller, Escrow, amount)>>]
           /\ UNCHANGED <<remittance_counter, refund_claimed, user_remittances,
                          recipient_remittances, config, outflow>>

contribute_entry(caller, remittance_id, amount, host_ok) ==
    LET call == Call("contribute", caller, remittance_id, amount)
        checks == contribute_checks(caller, remittance_id, amount)
        remittance == unwrap(get_remittance(remittance_id))
        paid == receive_payment(balances[caller], amount, host_ok)
        new_current == checked_add(remittance.current_amount, amount)
        updated == [remittance EXCEPT !.current_amount = unwrap(new_current)]
        stored == store_contribution(contributions, remittance_id, caller, amount)
    IN
    /\ last = Idle
    /\ IF checks # "Ok" THEN Revert(call, checks)
       ELSE IF IsNone(paid)
            THEN Revert(Issued(call, <<"receive_payment">>), "TransferFailed")
       ELSE IF IsNone(new_current)
            THEN Revert(Issued(call, <<"receive_payment">>), "ArithmeticOverflow")
       ELSE IF IsNone(stored)
            THEN Revert(Issued(call, <<"receive_payment", "store_remittance",
                                       "store_contribution">>), "ArithmeticOverflow")
       ELSE
           /\ balances' = [balances EXCEPT ![caller] = unwrap(paid)]
           /\ contract_purse' = contract_purse + amount
           /\ remittances' = store_remittance(remittances, updated)
           /\ contributions' = unwrap(stored)
           /\ contributors' = add_contributor(contributors, remittance_id, caller)
           /\ last' = [call EXCEPT
                          !.steps = <<"receive_payment", "store_remittance",
                                      "store_contribution", "add_contributor", "emit">>,
                          !.transfers = <<Transfer(caller, Escrow, amount)>>,
                          !.event = Some(ContributionMade(remittance_id, caller, amount,
                                                          updated))]
           /\ UNCHANGED <<remittance_counter, refund_claimed, user_remittances,
                          recipient_remittances, config, outflow>>

\* ------------------------------------------------------------------------
\* entry_points.rs: release_funds
\* ------------------------------------------------------------------------
release_funds_checks_any_caller(caller, remittance_id) ==
    LET found == get_remittance(remittance_id)
    IN
    IF is_paused THEN "ContractPaused"
    ELSE IF IsNone(found) THEN "RemittanceNotFound"
    ELSE IF unwrap(found).is_released THEN "AlreadyReleased"
    ELSE IF unwrap(found).is_cancelled THEN "RemittanceCancelled"
    ELSE IF ~is_target_met(unwrap(found)) THEN "TargetNotMet"
    ELSE "Ok"

release_funds_checks_repeatable(caller, remittance_id) ==
    LET found == get_remittance(remittance_id)
    IN
    IF is_paused THEN "ContractPaused"
    ELSE IF IsNone(found) THEN "RemittanceNotFound"
    ELSE IF caller # unwrap(found).recipient THEN "Unauthorized"
    ELSE IF unwrap(found).is_cancelled THEN "RemittanceCancelled"
    ELSE IF ~is_target_met(unwrap(found)) THEN "TargetNotMet"
    ELSE "Ok"

release_funds_checks_ignoring_cancel(caller, remittance_id) ==
    LET found == get_remittance(remittance_id)
    IN
    IF is_paused THEN "ContractPaused"
    ELSE IF IsNone(found) THEN "RemittanceNotFound"
    ELSE IF caller # unwrap(found).recipient THEN "Unauthorized"
    ELSE IF unwrap(found).is_released THEN "AlreadyReleased"
    ELSE IF ~is_target_met(unwrap(found)) THEN "TargetNotMet"
    ELSE "Ok"

release_funds_checks(caller, remittance_id) ==
    LET found == get_remittance(remittance_id)
        remittance == unwrap(found)
    IN
    IF is_paused THEN "ContractPaused"
    ELSE IF IsNone(found) THEN "RemittanceNotFound"
    ELSE IF caller # remittance.recipient THEN "Unauthorized"
    ELSE IF remittance.is_released THEN "AlreadyReleased"
    ELSE IF remittance.is_cancelled THEN "RemittanceCancelled"
    ELSE IF ~is_target_met(remittance) THEN "TargetNotMet"
    ELSE "Ok"

\* The fee transfer is requested only for a non-zero fee
fee_transfer_steps_unconditional(platform_fee) == <<"transfer_fee">>

fee_transfer_steps(platform_fee) == IF platform_fee # 0 THEN <<"transfer_fee">> ELSE <<>>

release_funds_entry_flag_kept(caller, remittance_id, fee_ok, payout_ok) ==
    LET call == Call("release_funds", caller, remittance_id, 0)
        checks == release_funds_checks(caller, remittance_id)
        remittance == unwrap(get_remittance(remittance_id))
        platform_fee == unwrap(calculate_fee(remittance.current_amount, platform_fee_bps))
        recipient_amount == remittance.current_amount - platform_fee
        released == [remittance EXCEPT !.is_released = TRUE]
        paid == fee_ok /\ payout_ok /\ contract_purse >= remittance.current_amount
    IN
    /\ last = Idle
    /\ IF checks # "Ok" THEN Revert(call, checks)
       ELSE
           /\ remittances' = store_remittance(remittances, released)
           /\ contract_purse' = IF paid THEN contract_purse - remittance.current_amount
                                ELSE contract_purse
           /\ balances' = IF paid
                          THEN Credit(Credit(balances, fee_collector, platform_fee),
                                      remittance.recipient, recipient_amount)
                          ELSE balances
           /\ outflow' = IF paid
                         THEN [outflow EXCEPT !.release =
                                  dictionary_put(@, remittance_key(remittance_id),
                                                 remittance.current_amount)]
                         ELSE outflow
           /\ last' = [call EXCEPT
                          !.result = IF paid THEN "Ok" ELSE "TransferFailed",
                          !.steps = <<"store_remittance", "transfer_fee", "transfer_payout">>]
           /\ UNCHANGED <<remittance_counter, contributions, contributors, refund_claimed,
                          user_remittances, recipient_remittances, config>>

release_funds_entry(caller, remittance_id, fee_ok, payout_ok) ==
    LET call == Call("release_funds", caller, remittance_id, 0)
        checks == release_funds_checks(caller, remittance_id)
        remittance == unwrap(get_remittance(remittance_id))
        fee_bps == platform_fee_bps
        fee_result == calculate_fee(remittance.current_amount, fee_bps)
        platform_fee == unwrap(fee_result)
        sub_result == checked_sub(remittance.current_amount, platform_fee)
        recipient_amount == unwrap(sub_result)
        released == [remittance EXCEPT !.is_released = TRUE]
        after_fee == IF platform_fee # 0
                     THEN transfer_cspr(contract_purse, platform_fee, fee_ok)
                     ELSE Some(contract_purse)
        after_payout == transfer_cspr(unwrap(after_fee), recipient_amount, payout_ok)
        fee_transfers == IF platform_fee # 0
                         THEN <<Transfer(Escrow, fee_collector, platform_fee)>> ELSE <<>>
        payout_transfers == IF recipient_amount # 0
                            THEN <<Transfer(Escrow, remittance.recipient, recipient_amount)>>
                            ELSE <<>>
        fee_steps == <<"store_remittance">> \o fee_transfer_steps(platform_fee)
        payout_steps == fee_steps \o <<"transfer_payout">>
    IN
    /\ last = Idle
    /\ IF checks # "Ok" THEN Revert(call, checks)
       ELSE IF IsNone(fee_result) THEN Revert(call, "ArithmeticOverflow")
       ELSE IF IsNone(sub_result) THEN Revert(call, "ArithmeticOverflow")
       ELSE IF IsNone(after_fee) THEN Revert(Issued(call, fee_steps), "TransferFailed")
       ELSE IF IsNone(after_payout)
            THEN Revert(Issued(call, payout_steps), "TransferFailed")
       ELSE
           /\ remittances' = store_remittance(remittances, released)
           /\ contract_purse' = unwrap(after_payout)
           /\ balances' = Credit(Credit(balances, fee_collector, platform_fee),
                                 remittance.recipient, recipient_amount)
           /\ outflow' = [outflow EXCEPT !.release =
                             dictionary_put(@, remittance_key(remittance_id),
                                            released_total(remittance_id)
                                              + platform_fee + recipient_amount)]
           /\ last' = [call EXCEPT
                          !.steps = payout_steps \o <<"emit">>,
                          !.transfers = fee_transfers \o payout_transfers,
                          !.event = Some([name |-> "FundsReleased",
                                          remittance_id |-> remittance_id,
                                          recipient |-> remittance.recipient,
                                          amount |-> recipient_amount,
                                          platform_fee |-> platform_fee])]
           /\ UNCHANGED <<remittance_counter, contributions, contributors, refund_claimed,
                          user_remittances, recipient_remittances, config>>

\* ------------------------------------------------------------------------
\* entry_points.rs: cancel_remittance
\* ------------------------------------------------------------------------
cancel_remittance_checks_unguarded(caller, remittance_id) ==
    LET found == get_remittance(remittance_id)
    IN
    IF is_paused THEN "ContractPaused"
    ELSE IF IsNone(found) THEN "RemittanceNotFound"
    ELSE IF caller # unwrap(found).creator THEN "Unauthorized"
    ELSE IF unwrap(found).is_cancelled THEN "RemittanceCancelled"
    ELSE "Ok"

cancel_remittance_checks_unfunded_only(caller, remittance_id) ==
    LET found == get_remittance(remittance_id)
    IN
    IF is_paused THEN "ContractPaused"
    ELSE IF IsNone(found) THEN "RemittanceNotFound"
    ELSE IF caller # unwrap(found).creator THEN "Unauthorized"
    ELSE IF unwrap(found).is_released THEN "AlreadyReleased"
    ELSE IF unwrap(found).is_cancelled THEN "RemittanceCancelled"
    ELSE IF unwrap(found).current_amount >= unwrap(found).target_amount THEN "Unauthorized"
    ELSE "Ok"

cancel_remittance_checks(caller, remittance_id) ==
    LET found == get_remittance(remittance_id)
        remittance == unwrap(found)
    IN
    IF is_paused THEN "ContractPaused"
    ELSE IF IsNone(found) THEN "RemittanceNotFound"
    ELSE IF caller # remittance.creator THEN "Unauthorized"
    ELSE IF remittance.is_released THEN "AlreadyReleased"
    ELSE IF remittance.is_cancelled THEN "RemittanceCancelled"
    ELSE "Ok"

cancel_remittance_entry(caller, remittance_id) ==
    LET call == Call("cancel_remittance", caller, remittance_id, 0)
        checks == cancel_remittance_checks(caller, remittance_id)
        remittance == unwrap(get_remittance(remittance_id))
        cancelled == [remittance EXCEPT !.is_cancelled = TRUE]
    IN
    /\ last = Idle
    /\ IF checks # "Ok" THEN Revert(call, checks)
       ELSE
           /\ remittances' = store_remittance(remittances, cancelled)
           /\ last' = [call EXCEPT
                          !.steps = <<"store_remittance", "emit">>,
                          !.event = Some([name |-> "RemittanceCancelled",
                                          remittance_id |-> remittance_id,
                                          creator |-> remittance.creator,
                                          total_amount |-> remittance.current_amount])]
           /\ UNCHANGED <<remittance_counter, contributions, contributors, refund_claimed,
                          user_remittances, recipient_remittances, config, purses>>

\* ------------------------------------------------------------------------
\* entry_points.rs: claim_refund
\* ------------------------------------------------------------------------
claim_refund_checks_repeatable(caller, remittance_id) ==
    LET found == get_remittance(remittance_id)
    IN
    IF is_paused THEN "ContractPaused"
    ELSE IF IsNone(found) THEN "RemittanceNotFound"
    ELSE IF ~unwrap(found).is_cancelled THEN "NotCancelled"
    ELSE IF get_contribution(remittance_id, caller) = 0 THEN "NoContribution"
    ELSE "Ok"

claim_refund_checks_any_caller(caller, remittance_id) ==
    LET found == get_remittance(remittance_id)
    IN
    IF is_paused THEN "ContractPaused"
    ELSE IF IsNone(found) THEN "RemittanceNotFound"
    ELSE IF ~unwrap(found).is_cancelled THEN "NotCancelled"
    ELSE IF is_refund_claimed(remittance_id, caller) THEN "RefundAlreadyClaimed"
    ELSE "Ok"

claim_refund_checks_any_state(caller, remittance_id) ==
    LET found == get_remittance(remittance_id)
    IN
    IF is_paused THEN "ContractPaused"
    ELSE IF IsNone(found) THEN "RemittanceNotFound"
    ELSE IF get_contribution(remittance_id, caller) = 0 THEN "NoContribution"
    ELSE IF is_refund_claimed(remittance_id, caller) THEN "RefundAlreadyClaimed"
    ELSE "Ok"

claim_refund_checks_unless_released(caller, remittance_id) ==
    LET found == get_remittance(remittance_id)
    IN
    IF is_paused THEN "ContractPaused"
    ELSE IF IsNone(found) THEN "RemittanceNotFound"
    ELSE IF unwrap(found).is_released THEN "NotCancelled"
    ELSE IF get_contribution(remittance_id, caller) = 0 THEN "NoContribution"
    ELSE IF is_refund_claimed(remittance_id, caller) THEN "RefundAlreadyClaimed"
    ELSE "Ok"

claim_refund_checks(caller, remittance_id) ==
    LET found == get_remittance(remittance_id)
        remittance == unwrap(found)
        contribution_amount == get_contribution(remittance_id, caller)
    IN
    IF is_paused THEN "ContractPaused"
    ELSE IF IsNone(found) THEN "RemittanceNotFound"
    ELSE IF ~remittance.is_cancelled THEN "NotCancelled"
    ELSE IF contribution_amount = 0 THEN "NoContribution"
    ELSE IF is_refund_claimed(remittance_id, caller) THEN "RefundAlreadyClaimed"
    ELSE "Ok"

claim_refund_entry(caller, remittance_id, host_ok) ==
    LET call == Call("claim_refund", caller, remittance_id, 0)
        checks == claim_refund_checks(caller, remittance_id)
        contribution_amount == get_contribution(remittance_id, caller)
        refunded == transfer_cspr(contract_purse, contribution_amount, host_ok)
    IN
    /\ last = Idle
    /\ IF checks # "Ok" THEN Revert(call, checks)
       ELSE IF IsNone(refunded)
            THEN Revert(Issued(call, <<"mark_refund_claimed", "transfer_refund">>),
                        "TransferFailed")
       ELSE
           /\ refund_claimed' = mark_refund_claimed(refund_claimed, remittance_id, caller)
           /\ contract_purse' = unwrap(refunded)
           /\ balances' = Credit(balances, caller, contribution_amount)
           /\ outflow' = [outflow EXCEPT !.refund =
                             dictionary_put(@, composite_key(remittance_id, caller),
                                            refunded_total(remittance_id, caller)
                                              + contribution_amount)]
           /\ last' = [call EXCEPT
                          !.steps = <<"mark_refund_claimed", "transfer_refund", "emit">>,
                          !.transfers = IF contribution_amount # 0
                                        THEN <<Transfer(Escrow, caller, contribution_amount)>>
                                        ELSE <<>>,
                          !.event = Some([name |-> "RefundClaimed",
                                          remittance_id |-> remittance_id,
                                          contributor |-> caller,
                                          amount |-> contribution_amount])]
           /\ UNCHANGED <<remittance_counter, remittances, contributions, contributors,
                          user_remittances, recipient_remittances, config>>

\* ------------------------------------------------------------------------
\* entry_points.rs: owner-gated operations
\* ------------------------------------------------------------------------
set_platform_fee_entry_uncapped(caller, new_fee_bps) ==
    LET call == Call("set_platform_fee", caller, 0, new_fee_bps)
    IN
    /\ last = Idle
    /\ IF caller # contract_owner THEN Revert(call, "Unauthorized")
       ELSE
           /\ platform_fee_bps' = new_fee_bps
           /\ last' = [call EXCEPT !.steps = <<"set_platform_fee_bps", "emit">>]
           /\ UNCHANGED <<ledger, fee_collector, contract_owner, is_paused, purses>>

set_platform_fee_entry(caller, new_fee_bps) ==
    LET call == Call("set_platform_fee", caller, 0, new_fee_bps)
    IN
    /\ last = Idle
    /\ IF caller # contract_owner THEN Revert(call, "Unauthorized")
       ELSE IF new_fee_bps > MAX_FEE_BPS THEN Revert(call, "FeeTooHigh")
       ELSE
           /\ platform_fee_bps' = new_fee_bps
           /\ last' = [call EXCEPT
                          !.steps = <<"set_platform_fee_bps", "emit">>,
                          !.event = Some([name |-> "PlatformFeeUpdated",
                                          old_fee_bps |-> platform_fee_bps,
                                          new_fee_bps |-> new_fee_bps])]
           /\ UNCHANGED <<ledger, fee_collector, contract_owner, is_paused, purses>>

pause_contract_entry(caller) ==
    LET call == Call("pause_contract", caller, 0, 0)
    IN
    /\ last = Idle
    /\ IF caller # contract_owner THEN Revert(call, "Unauthorized")
       ELSE
           /\ is_paused' = TRUE
           /\ last' = [call EXCEPT !.steps = <<"set_contract_paused", "emit">>,
                                    !.event = Some([name |-> "ContractPaused"])]
           /\ UNCHANGED <<ledger, platform_fee_bps, fee_collector, contract_owner, purses>>

unpause_contract_entry_unguarded(caller) ==
    LET call == Call("unpause_contract", caller, 0, 0)
    IN
    /\ last = Idle
    /\ is_paused' = FALSE
    /\ last' = [call EXCEPT !.steps = <<"set_contract_paused", "emit">>]
    /\ UNCHANGED <<ledger, platform_fee_bps, fee_collector, contract_owner, purses>>

unpause_contract_entry_pause_gated(caller) ==
    LET call == Call("unpause_contract", caller, 0, 0)
    IN
    /\ last = Idle
    /\ IF is_paused THEN Revert(call, "ContractPaused")
       ELSE IF caller # contract_owner THEN Revert(call, "Unauthorized")
       ELSE
           /\ is_paused' = FALSE
           /\ last' = [call EXCEPT !.steps = <<"set_contract_paused", "emit">>,
                                    !.event = Some([name |-> "ContractUnpaused"])]
           /\ UNCHANGED <<ledger, platform_fee_bps, fee_collector, contract_owner, purses>>

unpause_contract_entry(caller) ==
    LET call == Call("unpause_contract", caller, 0, 0)
    IN
    /\ last = Idle
    /\ IF caller # contract_owner THEN Revert(call, "Unauthorized")
       ELSE
           /\ is_paused' = FALSE
           /\ last' = [call EXCEPT !.steps = <<"set_contract_paused", "emit">>,
                                    !.event = Some([name |-> "ContractUnpaused"])]
           /\ UNCHANGED <<ledger, platform_fee_bps, fee_collector, contract_owner, purses>>

\* ------------------------------------------------------------------------
\* One deploy at a time: an entry point is called when the host is idle.
\* At most max successful creations are explored.
\* ------------------------------------------------------------------------
CreationAllowed(max, caller, recipient, target_amount, purpose) ==
    create_remittance_checks(caller, recipient, target_amount, purpose) = "Ok" =>
        unwrap_or(remittance_counter, 0) < max

Next ==
    \/ finalize_deploy
    \/ \E caller \in Callers, recipient \in Callers, target_amount \in TargetAmounts,
          purpose \in Purposes, now \in BlockTimes :
            /\ CreationAllowed(MaxRemittances, caller, recipient, target_amount, purpose)
            /\ create_remittance_entry(caller, recipient, target_amount, purpose, now)
    \/ \E caller \in Accounts, remittance_id \in RemittanceIds,
          amount \in ContributionAmounts, host_ok \in BOOLEAN :
            contribute_entry(caller, remittance_id, amount, host_ok)
    \/ \E caller \in Accounts, remittance_id \in RemittanceIds,
          fee_ok \in BOOLEAN, payout_ok \in BOOLEAN :
            release_funds_entry(caller, remittance_id, fee_ok, payout_ok)
    \/ \E caller \in Accounts, remittance_id \in RemittanceIds :
            cancel_remittance_entry(caller, remittance_id)
    \/ \E caller \in Accounts, remittance_id \in RemittanceIds, host_ok \in BOOLEAN :
            claim_refund_entry(caller, remittance_id, host_ok)
    \/ \E caller \in Accounts, new_fee_bps \in FeeInputs :
            set_platform_fee_entry(caller, new_fee_bps)
    \/ \E caller \in Accounts : pause_contract_entry(caller)
    \/ \E caller \in Accounts : unpause_contract_entry(caller)

Spec == Init /\ [][Next]_vars

\* ------------------------------------------------------------------------
\* Several remittances sharing the contract purse: the installer creates them
\* for either account, both accounts contribute, and any transfer may fail;
\* fee rate and pause flag stay as installed
\* ------------------------------------------------------------------------
FundedPurpose == <<Run("a", 1)>>
SharedIds == 1..MaxShared

NextShared ==
    \/ finalize_deploy
    \/ \E recipient \in Accounts, target_amount \in TargetAmounts \ {0},
          now \in BlockTimes :
            /\ CreationAllowed(MaxShared, Installer, recipient, target_amount, FundedPurpose)
            /\ create_remittance_entry(Installer, recipient, target_amount,
                                       FundedPurpose, now)
    \/ \E caller \in Accounts, remittance_id \in SharedIds,
          amount \in ContributionAmounts \ {0}, host_ok \in BOOLEAN :
            contribute_entry(caller, remittance_id, amount, host_ok)
    \/ \E caller \in Accounts, remittance_id \in SharedIds,
          fee_ok \in BOOLEAN, payout_ok \in BOOLEAN :
            release_funds_entry(caller, remittance_id, fee_ok, payout_ok)
    \/ \E caller \in Accounts, remittance_id \in SharedIds :
            cancel_remittance_entry(caller, remittance_id)
    \/ \E caller \in Accounts, remittance_id \in SharedIds, host_ok \in BOOLEAN :
            claim_refund_entry(caller, remittance_id, host_ok)

SpecShared == Init /\ [][NextShared]_vars

\* ------------------------------------------------------------------------
\* Id allocation: several creations with every kind of argument, valid or not,
\* on a contract that the owner pauses and unpauses and whose remittances the
\* creators cancel
\* ------------------------------------------------------------------------
NextCreate ==
    \/ finalize_deploy
    \/ \E caller \in Callers, recipient \in Callers, target_amount \in TargetAmounts,
          purpose \in Purposes, now \in BlockTimes :
            /\ CreationAllowed(MaxShared, caller, recipient, target_amount, purpose)
            /\ create_remittance_entry(caller, recipient, target_amount, purpose, now)
    \/ \E caller \in Accounts, remittance_id \in SharedIds :
            cancel_remittance_entry(caller, remittance_id)
    \/ \E caller \in Accounts : pause_contract_entry(caller)
    \/ \E caller \in Accounts : unpause_contract_entry(caller)

SpecCreate == Init /\ [][NextCreate]_vars


\* ------------------------------------------------------------------------
\* View entry points (entry_points.rs): they take no caller, read the ledger
\* and return the value read; field value of the outcome is the returned value
\* ------------------------------------------------------------------------
Returned(call, value) == call @@ [value |-> value]

get_remittance_entry(remittance_id) ==
    LET call == Call("get_remittance", ZeroAccount, remittance_id, 0)
        found == get_remittance(remittance_id)
    IN
    /\ last = Idle
    /\ IF IsNone(found) THEN Revert(call, "RemittanceNotFound")
       ELSE /\ last' = Returned(call, unwrap(found))
            /\ UNCHANGED store

get_contribution_entry_pause_gated(remittance_id, contributor) ==
    LET call == Call("get_contribution", contributor, remittance_id, 0)
    IN
    /\ last = Idle
    /\ IF is_paused THEN Revert(call, "ContractPaused")
       ELSE /\ last' = Returned(call, get_contribution(remittance_id, contributor))
            /\ UNCHANGED store

get_contribution_entry(remittance_id, contributor) ==
    LET call == Call("get_contribution", contributor, remittance_id, 0)
    IN
    /\ last = Idle
    /\ last' = Returned(call, get_contribution(remittance_id, contributor))
    /\ UNCHANGED store

is_refund_claimed_entry(remittance_id, contributor) ==
    LET call == Call("is_refund_claimed", contributor, remittance_id, 0)
    IN
    /\ last = Idle
    /\ last' = Returned(call, is_refund_claimed(remittance_id, contributor))
    /\ UNCHANGED store

get_platform_fee_entry ==
    LET call == Call("get_platform_fee", ZeroAccount, 0, 0)
    IN
    /\ last = Idle
    /\ last' = Returned(call, platform_fee_bps)
    /\ UNCHANGED store

\* The mutating entry points interleaved with the view entry points
NextViews ==
    \/ Next
    \/ \E remittance_id \in RemittanceIds : get_remittance_entry(remittance_id)
    \/ \E remittance_id \in RemittanceIds, contributor \in Callers :
            get_contribution_entry(remittance_id, contributor)
    \/ \E remittance_id \in RemittanceIds, contributor \in Callers :
            is_refund_claimed_entry(remittance_id, contributor)
    \/ get_platform_fee_entry

SpecViews == Init /\ [][NextViews]_vars

\* ------------------------------------------------------------------------
\* claim_refund_entry with its refund transfer opened up: the entry point runs
\* up to the transfer (claim_refund_begin), the transfer is in progress
\* (result "Pending"), and it ends with the transfer's result
\* (claim_refund_complete).  While the transfer is in progress the principal
\* being paid may call claim_refund again (claim_refund_nested); such a call
\* sees the store as the outer call has left it.  A nested call that reverts
\* either takes the whole deploy down with it or returns its error to the
\* code that made it; field saved holds what an aborted deploy restores.
\* ------------------------------------------------------------------------
InProgress == last.result = "Pending"
Snapshot == [refund_claimed |-> refund_claimed, contract_purse |-> contract_purse,
             balances |-> balances, outflow |-> outflow]
Nested(caller, remittance_id, result, amount) ==
    [caller |-> caller, id |-> remittance_id, result |-> result, amount |-> amount]

\* The deploy ends: every effect made since the outer call began is discarded
AbortDeploy(error, nested) ==
    /\ refund_claimed' = last.saved.refund_claimed
    /\ contract_purse' = last.saved.contract_purse
    /\ balances' = last.saved.balances
    /\ outflow' = last.saved.outflow
    /\ last' = [Call("claim_refund", last.caller, last.id, 0) EXCEPT
                    !.result = error, !.steps = last.steps] @@ [nested |-> nested]
    /\ UNCHANGED <<remittance_counter, remittances, contributions, contributors,
                   user_remittances, recipient_remittances, config>>

Refund(caller, remittance_id, amount, purse_left) ==
    /\ contract_purse' = purse_left
    /\ balances' = Credit(balances, caller, amount)
    /\ outflow' = [outflow EXCEPT !.refund =
                      dictionary_put(@, composite_key(remittance_id, caller),
                                     refunded_total(remittance_id, caller) + amount)]

claim_refund_begin_unmarked(caller, remittance_id) ==
    LET call == Call("claim_refund", caller, remittance_id, 0)
        checks == claim_refund_checks(caller, remittance_id)
    IN
    /\ last = Idle
    /\ IF checks # "Ok" THEN Revert(call, checks)
       ELSE
           /\ last' = [call EXCEPT !.result = "Pending",
                                   !.steps = <<"transfer_refund">>]
                      @@ [nested |-> <<>>, saved |-> Snapshot]
           /\ UNCHANGED store

claim_refund_begin(caller, remittance_id) ==
    LET call == Call("claim_refund", caller, remittance_id, 0)
        checks == claim_refund_checks(caller, remittance_id)
    IN
    /\ last = Idle
    /\ IF checks # "Ok" THEN Revert(call, checks)
       ELSE
           /\ refund_claimed' = mark_refund_claimed(refund_claimed, remittance_id, caller)
           /\ last' = [call EXCEPT !.result = "Pending",
                                   !.steps = <<"mark_refund_claimed", "transfer_refund">>]
                      @@ [nested |-> <<>>, saved |-> Snapshot]
           /\ UNCHANGED <<remittance_counter, remittances, contributions, contributors,
                          user_remittances, recipient_remittances, config, purses>>

claim_refund_nested(remittance_id, host_ok, aborts) ==
    LET caller == last.caller
        checks == claim_refund_checks(caller, remittance_id)
        contribution_amount == get_contribution(remittance_id, caller)
        refunded == transfer_cspr(contract_purse, contribution_amount, host_ok)
        error == IF checks # "Ok" THEN checks ELSE "TransferFailed"
    IN
    /\ InProgress
    /\ Len(last.nested) < MaxNested
    /\ IF checks # "Ok" \/ IsNone(refunded)
       THEN IF aborts
            THEN AbortDeploy(error,
                     Append(last.nested, Nested(caller, remittance_id, error, 0)))
            ELSE /\ last' = [last EXCEPT !.nested =
                                Append(@, Nested(caller, remittance_id, error, 0))]
                 /\ UNCHANGED store
       ELSE
           /\ refund_claimed' = mark_refund_claimed(refund_claimed, remittance_id, caller)
           /\ Refund(caller, remittance_id, contribution_amount, unwrap(refunded))
           /\ last' = [last EXCEPT !.nested =
                          Append(@, Nested(caller, remittance_id, "Ok", contribution_amount))]
           /\ UNCHANGED <<remittance_counter, remittances, contributions, contributors,
                          user_remittances, recipient_remittances, config>>

claim_refund_complete(host_ok) ==
    LET caller == last.caller
        remittance_id == last.id
        contribution_amount == get_contribution(remittance_id, caller)
        refunded == transfer_cspr(contract_purse, contribution_amount, host_ok)
    IN
    /\ InProgress
    /\ IF IsNone(refunded) THEN AbortDeploy("TransferFailed", last.nested)
       ELSE
           /\ Refund(caller, remittance_id, contribution_amount, unwrap(refunded))
           /\ last' = [Call("claim_refund", caller, remittance_id, 0) EXCEPT
                          !.steps = Append(last.steps, "emit"),
                          !.transfers = <<Transfer(Escrow, caller, contribution_amount)>>,
                          !.event = Some([name |-> "RefundClaimed",
                                          remittance_id |-> remittance_id,
                                          contributor |-> caller,
                                          amount |-> contribution_amount])]
                      @@ [nested |-> last.nested]
           /\ UNCHANGED <<ledger, config>>

NextNested ==
    \/ ~InProgress /\ finalize_deploy
    \/ \E recipient \in Accounts, target_amount \in TargetAmounts \ {0},
          now \in BlockTimes :
            /\ CreationAllowed(MaxShared, Installer, recipient, target_amount, FundedPurpose)
            /\ create_remittance_entry(Installer, recipient, target_amount,
                                       FundedPurpose, now)
    \/ \E caller \in Accounts, remittance_id \in SharedIds,
          amount \in ContributionAmounts \ {0}, host_ok \in BOOLEAN :
            contribute_entry(caller, remittance_id, amount, host_ok)
    \/ \E caller \in Accounts, remittance_id \in SharedIds :
            cancel_remittance_entry(caller, remittance_id)
    \/ \E caller \in Accounts, remittance_id \in SharedIds :
            claim_refund_begin(caller, remittance_id)
    \/ \E remittance_id \in SharedIds, host_ok \in BOOLEAN, aborts \in BOOLEAN :
            claim_refund_nested(remittance_id, host_ok, aborts)
    \/ \E host_ok \in BOOLEAN : claim_refund_complete(host_ok)

SpecNested == Init /\ [][NextNested]_vars

\* ------------------------------------------------------------------------
\* The derived values of a Remittance (remittance.rs): the contract holds one
\* remittance of the installer for account 2, funded by the installer; target
\* and funding range over amounts below, at and above the width of a word
\* ------------------------------------------------------------------------
Word == U64_MAX + 1
ProgressAmounts == {0, 1, 2, 3, Word \div 4, Word \div 2, Word - 1, Word, Word + 1, 2 * Word}
ProgressTargets == ProgressAmounts \ {0}

InitProgress ==
    \E current_amount \in ProgressAmounts, target_amount \in ProgressTargets :
        LET remittance == [Remittance_new(1, Installer, 2, target_amount, FundedPurpose, 7)
                              EXCEPT !.current_amount = current_amount]
        IN
        /\ remittance_counter = Some(1)
        /\ remittances = store_remittance(EmptyDict, remittance)
        /\ contributions = IF current_amount = 0 THEN EmptyDict
                           ELSE unwrap(store_contribution(EmptyDict, 1, Installer, current_amount))
        /\ contributors = IF current_amount = 0 THEN EmptyDict
                          ELSE add_contributor(EmptyDict, 1, Installer)
        /\ refund_claimed = EmptyDict
        /\ user_remittances = add_user_remittance(EmptyDict, Installer, 1)
        /\ recipient_remittances = add_recipient_remittance(EmptyDict, 2, 1)
        /\ platform_fee_bps = DEFAULT_FEE_BPS
        /\ contract_owner = Installer
        /\ fee_collector = Installer
        /\ is_paused = FALSE
        /\ contract_purse = current_amount
        /\ balances = [a \in Callers |-> IF a = ZeroAccount THEN 0
                                       ELSE IF a = Installer THEN InitialBalance
                                       ELSE InitialBalance \div 2]
        /\ outflow = [release |-> EmptyDict, refund |-> EmptyDict]
        /\ last = Idle

progress_percentage_call(remittance_id, overflow_panics) ==
    LET call == Call("progress_percentage", ZeroAccount, remittance_id, 0)
        percentage == progress_percentage(unwrap(get_remittance(remittance_id)),
                                          overflow_panics)
    IN
    /\ last = Idle
    /\ last' = IF IsNone(percentage) THEN [call EXCEPT !.result = "Panic"]
               ELSE Returned(call, unwrap(percentage))
    /\ UNCHANGED store

remaining_amount_call(remittance_id) ==
    LET call == Call("remaining_amount", ZeroAccount, remittance_id, 0)
    IN
    /\ last = Idle
    /\ last' = Returned(call, remaining_amount(unwrap(get_remittance(remittance_id))))
    /\ UNCHANGED store

is_target_met_call(remittance_id) ==
    LET call == Call("is_target_met", ZeroAccount, remittance_id, 0)
    IN
    /\ last = Idle
    /\ last' = Returned(call, is_target_met(unwrap(get_remittance(remittance_id))))
    /\ UNCHANGED store

NextProgress ==
    \/ finalize_deploy
    \/ \E overflow_panics \in BOOLEAN : progress_percentage_call(1, overflow_panics)
    \/ remaining_amount_call(1)
    \/ is_target_met_call(1)

SpecProgress == InitProgress /\ [][NextProgress]_vars
\* ------------------------------------------------------------------------
\* Properties
\* ------------------------------------------------------------------------
ExistsIn(dict, id) == remittance_key(id) \in DOMAIN dict
RemIn(dict, id) == dict[remittance_key(id)]
Exists(id) == ExistsIn(remittances, id)
Rem(id) == RemIn(remittances, id)

RECURSIVE SumOver(_, _)
SumOver(f, S) == IF S = {} THEN 0
                 ELSE LET x == CHOOSE y \in S : TRUE IN f[x] + SumOver(f, S \ {x})

LedgerTotal(id) == SumOver([p \in Callers |-> get_contribution(id, p)], Callers)

\* C1: for every remittance id the contribution ledger entries of all principals
\* sum to the remittance's current_amount (0 for an id never created), in every
\* reachable state
C1_LedgerSumEqualsCurrentAmount ==
    /\ \A id \in RemittanceIds :
          LedgerTotal(id) = IF Exists(id) THEN Rem(id).current_amount ELSE 0
    /\ \A k \in DOMAIN contributions :
          \E id \in RemittanceIds, p \in Callers : k = composite_key(id, p)

C1_Witness ==
    \E id \in RemittanceIds, p \in Accounts, q \in Accounts :
        /\ Exists(id) /\ Rem(id).is_cancelled
        /\ p # q
        /\ get_contribution(id, p) = 1000
        /\ get_contribution(id, q) = 500
        /\ is_refund_claimed(id, p)
        /\ last.op = "contribute" /\ last.result = "RemittanceCancelled"

\* C2: is_released and is_cancelled are never both true, and a flag that is true
\* stays true in every later state
C2_TerminalFlags ==
    [][\A id \in RemittanceIds :
          /\ Exists(id) => ExistsIn(remittances', id)
          /\ ExistsIn(remittances', id) =>
                ~(RemIn(remittances', id).is_released /\ RemIn(remittances', id).is_cancelled)
          /\ (Exists(id) /\ Rem(id).is_released) => RemIn(remittances', id).is_released
          /\ (Exists(id) /\ Rem(id).is_cancelled) => RemIn(remittances', id).is_cancelled
      ]_vars

C2_Witness ==
    /\ last.op = "cancel_remittance" /\ last.result = "AlreadyReleased"
    /\ Exists(last.id) /\ Rem(last.id).is_released /\ ~Rem(last.id).is_cancelled
    /\ last.caller = Rem(last.id).creator

\* The call just answered, seen from the state it was made in
Answered(ops) == last = Idle /\ last'.op \in ops

PassesEarlierChecks(r) ==
    /\ ~is_paused
    /\ last'.op = "contribute" => last'.amount # 0
    /\ last'.op = "release_funds" => last'.caller = r.recipient
    /\ last'.op = "cancel_remittance" => last'.caller = r.creator

\* C3 as stated: once a remittance is released (cancelled), every contribute,
\* release_funds or cancel_remittance call on it fails with AlreadyReleased
\* (RemittanceCancelled) and changes no state
C3_Original ==
    [][(Answered({"contribute", "release_funds", "cancel_remittance"}) /\ Exists(last'.id)) =>
          /\ Rem(last'.id).is_released =>
                (last'.result = "AlreadyReleased" /\ UNCHANGED store)
          /\ Rem(last'.id).is_cancelled =>
                (last'.result = "RemittanceCancelled" /\ UNCHANGED store)
      ]_vars

\* C3 amended: once a remittance is released (cancelled), every contribute,
\* release_funds or cancel_remittance call on it fails and changes no state; the
\* error is AlreadyReleased (RemittanceCancelled) when the call passes the checks
\* made before the state check: not paused, a non-zero contribution amount,
\* release_funds called by the recipient, cancel_remittance by the creator
C3_TerminalCallsFail ==
    [][(Answered({"contribute", "release_funds", "cancel_remittance"}) /\ Exists(last'.id)) =>
          LET r == Rem(last'.id) IN
          /\ r.is_released =>
                /\ last'.result # "Ok" /\ UNCHANGED store
                /\ PassesEarlierChecks(r) => last'.result = "AlreadyReleased"
          /\ r.is_cancelled =>
                /\ last'.result # "Ok" /\ UNCHANGED store
                /\ PassesEarlierChecks(r) => last'.result = "RemittanceCancelled"
      ]_vars

C3_Witness ==
    /\ last.op = "contribute" /\ last.result = "RemittanceCancelled"
    /\ Exists(last.id) /\ Rem(last.id).is_cancelled
    /\ Rem(last.id).current_amount > 0
    /\ balances[last.caller] >= last.amount

\* C4 as stated: a release_funds call by the recipient succeeds if and only if
\* the remittance is active and current_amount >= target_amount
C4_Original ==
    [][(Answered({"release_funds"}) /\ Exists(last'.id)
          /\ last'.caller = Rem(last'.id).recipient) =>
          (last'.result = "Ok" <=>
              (is_active(Rem(last'.id))
                 /\ Rem(last'.id).current_amount >= Rem(last'.id).target_amount))
      ]_vars

\* C4 amended: a release_funds call by the recipient succeeds if and only if the
\* contract is not paused, the remittance is active, current_amount >=
\* target_amount and no outbound transfer fails; the contract purse then holds at
\* least current_amount, so a transfer fails only when the host refuses it
C4_ReleaseSucceedsIff ==
    [][(Answered({"release_funds"}) /\ Exists(last'.id)
          /\ last'.caller = Rem(last'.id).recipient) =>
          LET r == Rem(last'.id)
              ready == ~is_paused /\ is_active(r) /\ r.current_amount >= r.target_amount
          IN
          /\ last'.result = "Ok" <=> (ready /\ last'.result # "TransferFailed")
          /\ last'.result = "TransferFailed" => ready
          /\ ready => contract_purse >= r.current_amount
      ]_vars

C4_Witness ==
    /\ last.op = "release_funds" /\ last.result = "Ok"
    /\ Exists(last.id) /\ Rem(last.id).is_released
    /\ Rem(last.id).current_amount = Rem(last.id).target_amount

\* C5: on every successful release_funds the fee is floor(current_amount *
\* platform_fee_bps / 10000) at the rate stored when the call is made, the payout
\* is current_amount - fee, fee <= current_amount, the fee collector receives
\* exactly the fee and the recipient exactly the payout, and the contract purse
\* loses exactly current_amount; 10000 at 50 bps gives fee 50 and payout 9950
C5_FeeAndPayout ==
    [][/\ calculate_fee(10000, 50) = Some(50)
       /\ checked_sub(10000, 50) = Some(9950)
       /\ (Answered({"release_funds"}) /\ last'.result = "Ok") =>
             LET r == Rem(last'.id)
                 fee == (r.current_amount * platform_fee_bps) \div 10000
                 payout == r.current_amount - fee
             IN
             /\ fee <= r.current_amount /\ payout >= 0
             /\ payout + fee = r.current_amount
             /\ unwrap(last'.event).platform_fee = fee
             /\ unwrap(last'.event).amount = payout
             /\ last'.transfers =
                   (IF fee # 0 THEN <<Transfer(Escrow, fee_collector, fee)>> ELSE <<>>)
                   \o (IF payout # 0 THEN <<Transfer(Escrow, r.recipient, payout)>> ELSE <<>>)
             /\ contract_purse' = contract_purse - r.current_amount
             /\ balances' = [a \in Callers |->
                               balances[a] + (IF a = fee_collector THEN fee ELSE 0)
                                           + (IF a = r.recipient THEN payout ELSE 0)]
      ]_vars

C5_Witness ==
    /\ last.op = "release_funds" /\ last.result = "Ok"
    /\ Rem(last.id).current_amount = 1500
    /\ platform_fee_bps = 50
    /\ last.transfers = <<Transfer(Escrow, fee_collector, 7),
                          Transfer(Escrow, Rem(last.id).recipient, 1493)>>
    /\ fee_collector # Rem(last.id).recipient

UnderTarget(r) == is_active(r) /\ r.current_amount < r.target_amount

ReleasedOnlyWhenTargetMet(dict) ==
    \A id \in RemittanceIds :
        (ExistsIn(dict, id) /\ RemIn(dict, id).is_released) =>
            RemIn(dict, id).current_amount >= RemIn(dict, id).target_amount

\* C6 as stated: release_funds by the recipient on an active remittance with
\* current_amount < target_amount fails with TargetNotMet, moves no funds and
\* leaves is_released false; is_released implies current_amount >= target_amount
C6_Original ==
    [][/\ (Answered({"release_funds"}) /\ Exists(last'.id)
             /\ last'.caller = Rem(last'.id).recipient /\ UnderTarget(Rem(last'.id))) =>
             /\ last'.result = "TargetNotMet"
             /\ last'.transfers = <<>> /\ UNCHANGED purses
             /\ ~RemIn(remittances', last'.id).is_released
       /\ ReleasedOnlyWhenTargetMet(remittances')
      ]_vars

\* C6 amended: release_funds by the recipient on an active remittance with
\* current_amount < target_amount fails, with TargetNotMet when the contract is
\* not paused and with ContractPaused when it is, moves no funds and leaves
\* is_released false; is_released implies current_amount >= target_amount in
\* every reachable state
C6_NoReleaseBeforeTarget ==
    [][/\ (Answered({"release_funds"}) /\ Exists(last'.id)
             /\ last'.caller = Rem(last'.id).recipient /\ UnderTarget(Rem(last'.id))) =>
             /\ last'.result = IF is_paused THEN "ContractPaused" ELSE "TargetNotMet"
             /\ last'.transfers = <<>> /\ UNCHANGED purses
             /\ ~RemIn(remittances', last'.id).is_released
       /\ ReleasedOnlyWhenTargetMet(remittances')
      ]_vars

C6_Witness ==
    /\ last.op = "release_funds" /\ last.result = "TargetNotMet"
    /\ Exists(last.id) /\ last.caller = Rem(last.id).recipient
    /\ Rem(last.id).current_amount = 500 /\ Rem(last.id).target_amount = 1000
    /\ ~Rem(last.id).is_released /\ contract_purse = 500

RefundedIn(flow, id, p) == unwrap_or(dictionary_get(flow.refund, composite_key(id, p)), 0)
ContributionIn(dict, id, p) == unwrap_or(dictionary_get(dict, composite_key(id, p)), 0)

RefundsWithinLedger(flow, dict) ==
    /\ \A id \in RemittanceIds, p \in Callers :
          RefundedIn(flow, id, p) <= ContributionIn(dict, id, p)
    /\ \A k \in DOMAIN flow.refund :
          \E id \in RemittanceIds, p \in Callers : k = composite_key(id, p)

\* C7 as stated: after one successful claim_refund by a principal, every later
\* claim_refund by that principal on the same id fails with RefundAlreadyClaimed
\* and transfers nothing; the total refunded to a principal for an id never
\* exceeds that principal's ledger entry
C7_Original ==
    [][/\ (Answered({"claim_refund"}) /\ refunded_total(last'.id, last'.caller) > 0) =>
             /\ last'.result = "RefundAlreadyClaimed"
             /\ last'.transfers = <<>> /\ UNCHANGED purses
       /\ RefundsWithinLedger(outflow', contributions')
      ]_vars

\* C7 amended: after one successful claim_refund by a principal, every later
\* claim_refund by that principal on the same id fails, with RefundAlreadyClaimed
\* when the contract is not paused and with ContractPaused when it is, transfers
\* nothing and changes no state; the total refunded to a principal for an id
\* never exceeds that principal's ledger entry
C7_RefundAtMostOnce ==
    [][/\ (Answered({"claim_refund"}) /\ refunded_total(last'.id, last'.caller) > 0) =>
             /\ last'.result = IF is_paused THEN "ContractPaused" ELSE "RefundAlreadyClaimed"
             /\ last'.transfers = <<>> /\ UNCHANGED store
       /\ RefundsWithinLedger(outflow', contributions')
      ]_vars

C7_Witness ==
    /\ last.op = "claim_refund" /\ last.result = "RefundAlreadyClaimed"
    /\ refunded_total(last.id, last.caller) = 500
    /\ get_contribution(last.id, last.caller) = 500
    /\ contract_purse >= 500

ZeroEntryOnCancelled ==
    /\ Exists(last'.id) /\ Rem(last'.id).is_cancelled
    /\ get_contribution(last'.id, last'.caller) = 0

\* C8 as stated: claim_refund on a cancelled remittance by a principal whose
\* ledger entry for that id is zero fails with NoContribution, sets no refund
\* marker and transfers nothing
C8_Original ==
    [][(Answered({"claim_refund"}) /\ ZeroEntryOnCancelled) =>
          /\ last'.result = "NoContribution"
          /\ refund_claimed' = refund_claimed
          /\ last'.transfers = <<>> /\ UNCHANGED purses
      ]_vars

\* C8 amended: claim_refund on a cancelled remittance by a principal whose ledger
\* entry for that id is zero fails, with NoContribution when the contract is not
\* paused and with ContractPaused when it is, sets no refund marker and transfers
\* nothing
C8_NoContribution ==
    [][(Answered({"claim_refund"}) /\ ZeroEntryOnCancelled) =>
          /\ last'.result = IF is_paused THEN "ContractPaused" ELSE "NoContribution"
          /\ refund_claimed' = refund_claimed
          /\ last'.transfers = <<>> /\ UNCHANGED purses
      ]_vars

C8_Witness ==
    /\ last.op = "claim_refund" /\ last.result = "NoContribution"
    /\ Exists(last.id) /\ Rem(last.id).is_cancelled
    /\ get_contribution(last.id, last.caller) = 0
    /\ ~is_refund_claimed(last.id, last.caller)
    /\ contract_purse > 0

\* C9: a successful claim_refund sets the caller's refund marker for the id,
\* transfers exactly the caller's cumulative ledger amount from the contract
\* purse to the caller, and leaves the caller's ledger entry, the remittance
\* record and every other principal's entries and markers unchanged
C9_ClaimRefundEffect ==
    [][(Answered({"claim_refund"}) /\ last'.result = "Ok") =>
          LET id == last'.id
              p == last'.caller
              amount == get_contribution(id, p)
              key == composite_key(id, p)
          IN
          /\ key \in DOMAIN refund_claimed' /\ refund_claimed'[key] = TRUE
          /\ amount > 0
          /\ last'.transfers = <<Transfer(Escrow, p, amount)>>
          /\ contract_purse' = contract_purse - amount
          /\ balances' = [a \in Callers |-> balances[a] + (IF a = p THEN amount ELSE 0)]
          /\ contributions' = contributions
          /\ remittances' = remittances
          /\ contributors' = contributors
          /\ DOMAIN refund_claimed' = DOMAIN refund_claimed \cup {key}
          /\ \A k \in DOMAIN refund_claimed : k # key => refund_claimed'[k] = refund_claimed[k]
          /\ UNCHANGED <<remittance_counter, user_remittances, recipient_remittances, config>>
      ]_vars

C9_Witness ==
    /\ last.op = "claim_refund" /\ last.result = "Ok"
    /\ get_contribution(last.id, last.caller) = 1000
    /\ last.transfers = <<Transfer(Escrow, last.caller, 1000)>>
    /\ \E q \in Accounts :
          /\ q # last.caller
          /\ get_contribution(last.id, q) = 500
          /\ ~is_refund_claimed(last.id, q)

\* C10: in every reachable state a refund marker for (id, principal) is true only
\* if remittance id is cancelled and the principal's ledger entry for id is
\* non-zero
C10_MarkerOnlyIfCancelledAndContributed ==
    /\ \A id \in RemittanceIds, p \in Callers :
          is_refund_claimed(id, p) =>
              (Exists(id) /\ Rem(id).is_cancelled /\ get_contribution(id, p) # 0)
    /\ \A k \in DOMAIN refund_claimed :
          \E id \in RemittanceIds, p \in Callers : k = composite_key(id, p)

C10_Witness ==
    \E id \in RemittanceIds, p \in Accounts, q \in Accounts :
        /\ is_refund_claimed(id, p) /\ Rem(id).is_cancelled
        /\ get_contribution(id, p) = 500
        /\ get_contribution(id, q) = 0
        /\ ~is_refund_claimed(id, q)
        /\ last.op = "claim_refund" /\ last.caller = q /\ last.result = "NoContribution"

NoRefundFromReleased(dict, flow) ==
    \A id \in RemittanceIds, p \in Callers :
        (ExistsIn(dict, id) /\ RemIn(dict, id).is_released) => RefundedIn(flow, id, p) = 0

\* C11 as stated: claim_refund on a remittance that is not cancelled (active or
\* released) fails with NotCancelled for every caller, sets no marker and moves
\* no funds; no refund is ever paid from a released remittance
C11_Original ==
    [][/\ (Answered({"claim_refund"}) /\ Exists(last'.id) /\ ~Rem(last'.id).is_cancelled) =>
             /\ last'.result = "NotCancelled"
             /\ refund_claimed' = refund_claimed
             /\ last'.transfers = <<>> /\ UNCHANGED purses
       /\ NoRefundFromReleased(remittances', outflow')
      ]_vars

\* C11 amended: claim_refund on a remittance that is not cancelled (active or
\* released) fails for every caller, with NotCancelled when the contract is not
\* paused and with ContractPaused when it is, sets no marker and moves no funds;
\* no refund is ever paid from a released remittance
C11_NotCancelled ==
    [][/\ (Answered({"claim_refund"}) /\ Exists(last'.id) /\ ~Rem(last'.id).is_cancelled) =>
             /\ last'.result = IF is_paused THEN "ContractPaused" ELSE "NotCancelled"
             /\ refund_claimed' = refund_claimed
             /\ last'.transfers = <<>> /\ UNCHANGED purses
       /\ NoRefundFromReleased(remittances', outflow')
      ]_vars

C11_Witness ==
    /\ last.op = "claim_refund" /\ last.result = "NotCancelled"
    /\ Exists(last.id) /\ is_active(Rem(last.id))
    /\ get_contribution(last.id, last.caller) = 500
    /\ contract_purse >= 500

FeeWithinCap(fee) == fee \in 0..MAX_FEE_BPS

OwnerSetsFee ==
    (last'.caller = contract_owner /\ FeeWithinCap(last'.amount)) =>
        (last'.result = "Ok" /\ platform_fee_bps' = last'.amount)

\* C12 as stated: the platform fee is within [0, 500] in every reachable state
\* and 50 at initialization; a set_platform_fee call with a value above 500
\* fails with FeeTooHigh and leaves the stored fee unchanged; a call by the owner
\* with a value in [0, 500] sets the stored fee to exactly that value
C12_Original ==
    /\ platform_fee_bps = 50
    /\ [][/\ FeeWithinCap(platform_fee_bps')
          /\ Answered({"set_platform_fee"}) =>
                /\ last'.amount > 500 =>
                      (last'.result = "FeeTooHigh" /\ platform_fee_bps' = platform_fee_bps)
                /\ OwnerSetsFee
         ]_vars

\* C12 amended: the platform fee is within [0, 500] in every reachable state and
\* 50 at initialization; a set_platform_fee call with a value above 500 fails and
\* leaves the stored fee unchanged, with FeeTooHigh when the caller is the owner
\* and with Unauthorized otherwise; a call by the owner with a value in [0, 500]
\* sets the stored fee to exactly that value
C12_FeeWithinCap ==
    /\ platform_fee_bps = 50
    /\ [][/\ FeeWithinCap(platform_fee_bps')
          /\ Answered({"set_platform_fee"}) =>
                /\ last'.amount > 500 =>
                      /\ last'.result = IF last'.caller = contract_owner
                                        THEN "FeeTooHigh" ELSE "Unauthorized"
                      /\ platform_fee_bps' = platform_fee_bps
                /\ OwnerSetsFee
         ]_vars

C12_Witness ==
    /\ last.op = "set_platform_fee" /\ last.result = "FeeTooHigh"
    /\ last.amount = 501 /\ platform_fee_bps = 500

OwnerGated == {"set_platform_fee", "pause_contract", "unpause_contract"}

\* C13: set_platform_fee, pause_contract and unpause_contract called by any
\* principal other than the stored owner fail with Unauthorized and change no
\* state; the owner is the installer, and no operation changes the owner or the
\* fee collector
C13_OwnerGated ==
    /\ contract_owner = Installer
    /\ [][/\ (Answered(OwnerGated) /\ last'.caller # contract_owner) =>
                (last'.result = "Unauthorized" /\ last'.event = None /\ UNCHANGED store)
          /\ contract_owner' = Installer
          /\ UNCHANGED <<contract_owner, fee_collector>>
         ]_vars

C13_Witness ==
    /\ last.op = "unpause_contract" /\ last.result = "Unauthorized"
    /\ last.caller # contract_owner
    /\ is_paused /\ platform_fee_bps = 500

WrongCaller ==
    /\ Exists(last'.id)
    /\ \/ last'.op = "release_funds" /\ last'.caller # Rem(last'.id).recipient
       \/ last'.op = "cancel_remittance" /\ last'.caller # Rem(last'.id).creator

\* C14 as stated: release_funds by a principal other than the recipient and
\* cancel_remittance by a principal other than the creator fail with
\* Unauthorized and leave the record, the ledgers and the escrow balance unchanged
C14_Original ==
    [][(Answered({"release_funds", "cancel_remittance"}) /\ WrongCaller) =>
          (last'.result = "Unauthorized" /\ UNCHANGED store)
      ]_vars

\* C14 amended: release_funds by a principal other than the recipient and
\* cancel_remittance by a principal other than the creator fail, with
\* Unauthorized when the contract is not paused and with ContractPaused when it
\* is, and leave the record, the ledgers and the escrow balance unchanged
C14_WrongCallerFails ==
    [][(Answered({"release_funds", "cancel_remittance"}) /\ WrongCaller) =>
          /\ last'.result = IF is_paused THEN "ContractPaused" ELSE "Unauthorized"
          /\ UNCHANGED store
      ]_vars

C14_Witness ==
    /\ last.op = "release_funds" /\ last.result = "Unauthorized"
    /\ Exists(last.id) /\ last.caller = Rem(last.id).creator
    /\ is_active(Rem(last.id)) /\ is_target_met(Rem(last.id))
    /\ contract_purse >= Rem(last.id).current_amount

PauseGated == {"create_remittance", "contribute", "release_funds",
               "cancel_remittance", "claim_refund"}

ValidPurpose(purpose) == str_len(purpose) <= 256 /\ ~trim_is_empty(purpose)

\* The preconditions other than "not paused" of the call just answered
OtherPreconditions ==
    LET id == last'.id
        p == last'.caller
    IN CASE last'.op = "contribute" ->
              last'.amount > 0 /\ Exists(id) /\ is_active(Rem(id))
         [] last'.op = "release_funds" ->
              /\ Exists(id) /\ p = Rem(id).recipient /\ is_active(Rem(id))
              /\ Rem(id).current_amount >= Rem(id).target_amount
         [] last'.op = "cancel_remittance" ->
              Exists(id) /\ p = Rem(id).creator /\ is_active(Rem(id))
         [] last'.op = "claim_refund" ->
              /\ Exists(id) /\ Rem(id).is_cancelled
              /\ get_contribution(id, p) > 0 /\ ~is_refund_claimed(id, p)

\* C15: while the contract is paused every create_remittance, contribute,
\* release_funds, cancel_remittance and claim_refund call fails with
\* ContractPaused and changes no state; an unpause by the owner clears the flag
\* and changes nothing else, and while the contract is not paused each of these
\* calls succeeds exactly when its other preconditions hold and no transfer it
\* requests fails
C15_PauseGate ==
    [][/\ (Answered(PauseGated) /\ is_paused) =>
             (last'.result = "ContractPaused" /\ last'.event = None /\ UNCHANGED store)
       /\ (Answered({"unpause_contract"}) /\ last'.caller = contract_owner) =>
             /\ last'.result = "Ok" /\ ~is_paused'
             /\ UNCHANGED <<ledger, platform_fee_bps, fee_collector, contract_owner, purses>>
       /\ (Answered(PauseGated \ {"create_remittance"}) /\ ~is_paused) =>
             (last'.result = "Ok" <=>
                 (OtherPreconditions /\ last'.result # "TransferFailed"))
       /\ \A caller \in Callers, recipient \in Callers, target_amount \in TargetAmounts,
             purpose \in Purposes, now \in BlockTimes :
             (create_remittance_entry(caller, recipient, target_amount, purpose, now)
                /\ ~is_paused) =>
                (last'.result = "Ok" <=>
                    /\ caller # ZeroAccount /\ recipient # ZeroAccount
                    /\ target_amount > 0 /\ ValidPurpose(purpose))
      ]_vars

C15_Witness ==
    /\ last.op = "claim_refund" /\ last.result = "ContractPaused"
    /\ is_paused
    /\ Exists(last.id) /\ Rem(last.id).is_cancelled
    /\ get_contribution(last.id, last.caller) = 500
    /\ ~is_refund_claimed(last.id, last.caller)
    /\ contract_purse >= 500

LedgerWrites == {"store_remittance", "store_contribution", "add_contributor"}

\* Every step named in first comes before every step named in later
Precedes(steps, first, later) ==
    \A i, j \in 1..Len(steps) : (steps[i] \in first /\ steps[j] \in later) => i < j

\* C16: in contribute the inbound transfer is requested before any ledger
\* update, and when that transfer fails (the contributor's purse holds less than
\* the amount, or the host refuses it) the call fails with no change to
\* current_amount, the contribution ledger, the contributor-set or the escrow
\* balance
C16_PaymentBeforeLedger ==
    [][Answered({"contribute"}) =>
          /\ Precedes(last'.steps, {"receive_payment"}, LedgerWrites)
          /\ (\E i \in 1..Len(last'.steps) : last'.steps[i] \in LedgerWrites) =>
                last'.steps[1] = "receive_payment"
          /\ (~is_paused /\ last'.amount > 0 /\ Exists(last'.id) /\ is_active(Rem(last'.id))
                /\ balances[last'.caller] < last'.amount) =>
                last'.result = "TransferFailed"
          /\ last'.result = "TransferFailed" =>
                /\ last'.steps = <<"receive_payment">>
                /\ last'.transfers = <<>>
                /\ UNCHANGED store
      ]_vars

C16_Witness ==
    /\ last.op = "contribute" /\ last.result = "TransferFailed"
    /\ balances[last.caller] < last.amount
    /\ Exists(last.id) /\ is_active(Rem(last.id))
    /\ get_contribution(last.id, last.caller) = 500
    /\ contract_purse = Rem(last.id).current_amount

FailedRelease == Answered({"release_funds"}) /\ last'.result = "TransferFailed"

RefundedToAll(id) == SumOver([p \in Callers |-> refunded_total(id, p)], Callers)

\* C18: for every remittance id, whatever the order of calls and whichever
\* transfers fail, the total ever transferred out of the contract purse on
\* account of the id (fee and payout on release, plus all refunds) never exceeds
\* its current_amount, and a remittance never pays out through both the release
\* path and the refund path
C18_NoDoublePayment ==
    /\ \A id \in RemittanceIds :
          /\ released_total(id) + RefundedToAll(id)
                <= (IF Exists(id) THEN Rem(id).current_amount ELSE 0)
          /\ ~(released_total(id) > 0 /\ RefundedToAll(id) > 0)
    /\ \A k \in DOMAIN outflow.release : \E id \in RemittanceIds : k = remittance_key(id)
    /\ \A k \in DOMAIN outflow.refund :
          \E id \in RemittanceIds, p \in Callers : k = composite_key(id, p)

C18_Witness ==
    /\ last.op = "claim_refund" /\ last.result = "RefundAlreadyClaimed"
    /\ \E a \in RemittanceIds :
          /\ a # last.id /\ Exists(a)
          /\ Rem(a).current_amount = 1000 /\ released_total(a) = 1000
    /\ Rem(last.id).current_amount = 500 /\ RefundedToAll(last.id) = 500

OthersUnchanged(before, after, key) ==
    /\ DOMAIN after = DOMAIN before \cup {key}
    /\ \A k \in DOMAIN before : k # key => after[k] = before[k]

Count(seq, x) == Cardinality({i \in 1..Len(seq) : seq[i] = x})

\* The example of the contract's documentation, on the operators themselves:
\* target 1000, contributions 300 then 700 by one principal
Example300Then700 ==
    LET r0 == Remittance_new(1, 1, 2, 1000, <<Run("a", 1)>>, 7)
        r1 == [r0 EXCEPT !.current_amount = unwrap(checked_add(@, 300))]
        r2 == [r1 EXCEPT !.current_amount = unwrap(checked_add(@, 700))]
        d1 == unwrap(store_contribution(EmptyDict, 1, 1, 300))
        d2 == unwrap(store_contribution(d1, 1, 1, 700))
    IN /\ ~is_target_met(r1) /\ r2.current_amount = 1000 /\ is_target_met(r2)
       /\ DOMAIN d2 = {composite_key(1, 1)} /\ d2[composite_key(1, 1)] = 1000

\* C19: a successful contribute(id, amount) by p increases current_amount of id
\* by exactly amount, increases the ledger entry (id, p) by exactly amount
\* (repeated contributions accumulate into one entry), adds p to the
\* contributor list of id if absent and moves exactly amount from p into the
\* contract purse; 300 then 700 against a target of 1000 gives 1000, target met
C19_ContributeEffect ==
    [][/\ Example300Then700
       /\ (Answered({"contribute"}) /\ last'.result = "Ok") =>
             LET id == last'.id
                 p == last'.caller
                 amount == last'.amount
                 list == unwrap_or(dictionary_get(contributors', remittance_key(id)), <<>>)
             IN
             /\ amount > 0 /\ Exists(id)
             /\ RemIn(remittances', id) =
                   [Rem(id) EXCEPT !.current_amount = Rem(id).current_amount + amount]
             /\ OthersUnchanged(remittances, remittances', remittance_key(id))
             /\ ContributionIn(contributions', id, p) = get_contribution(id, p) + amount
             /\ OthersUnchanged(contributions, contributions', composite_key(id, p))
             /\ Count(list, p) = 1
             /\ list = IF Contains(get_contributors(id), p) THEN get_contributors(id)
                       ELSE Append(get_contributors(id), p)
             /\ OthersUnchanged(contributors, contributors', remittance_key(id))
             /\ last'.transfers = <<Transfer(p, Escrow, amount)>>
             /\ contract_purse' = contract_purse + amount
             /\ balances' = [balances EXCEPT ![p] = balances[p] - amount]
             /\ balances'[p] >= 0
             /\ UNCHANGED <<remittance_counter, refund_claimed, user_remittances,
                            recipient_remittances, config, outflow>>
      ]_vars

C19_Witness ==
    /\ last.op = "contribute" /\ last.result = "Ok" /\ last.amount = 500
    /\ get_contribution(last.id, last.caller) = 1000
    /\ Rem(last.id).current_amount = 1500
    /\ Len(get_contributors(last.id)) = 2
    /\ is_target_met(Rem(last.id))

\* C20: when the contract is not paused, contribute with amount 0 fails with
\* InvalidContributionAmount whatever the id (existing or unknown, active or
\* terminal) and leaves current_amount, the contribution ledger, the contributor
\* lists and the escrow balance unchanged
C20_ZeroContribution ==
    [][(Answered({"contribute"}) /\ ~is_paused /\ last'.amount = 0) =>
          /\ last'.result = "InvalidContributionAmount"
          /\ last'.steps = <<>> /\ last'.transfers = <<>> /\ last'.event = None
          /\ UNCHANGED store
      ]_vars

C20_Witness ==
    /\ last.op = "contribute" /\ last.result = "InvalidContributionAmount"
    /\ last.amount = 0 /\ ~is_paused
    /\ Exists(last.id) /\ Rem(last.id).is_released
    /\ balances[last.caller] > 0

\* C21: every successful create_remittance returns an id strictly greater than
\* every id assigned before and than the stored counter, stores the new record
\* under that id without touching any existing record, and makes the id the new
\* counter; no step removes a record or changes the id it carries, so no id is
\* assigned twice or reused
C21_UniqueIncreasingIds ==
    [][/\ (Answered({"create_remittance"}) /\ last'.result = "Ok") =>
             LET id == last'.ret IN
             /\ id > unwrap_or(remittance_counter, 0)
             /\ \A k \in RemittanceIds : Exists(k) => k < id
             /\ ~Exists(id) /\ ExistsIn(remittances', id)
             /\ OthersUnchanged(remittances, remittances', remittance_key(id))
             /\ remittance_counter' = Some(id)
             /\ \A a \in Callers :
                   /\ ~Contains(unwrap_or(dictionary_get(user_remittances,
                                                         account_to_string(a)), <<>>), id)
                   /\ ~Contains(unwrap_or(dictionary_get(recipient_remittances,
                                                         account_to_string(a)), <<>>), id)
       /\ \A k \in RemittanceIds :
             /\ Exists(k) => ExistsIn(remittances', k)
             /\ ExistsIn(remittances', k) => RemIn(remittances', k).id = k
       /\ \A key \in DOMAIN remittances' : \E k \in RemittanceIds : key = remittance_key(k)
       /\ unwrap_or(remittance_counter', 0) >= unwrap_or(remittance_counter, 0)
      ]_vars

C21_Witness ==
    /\ last.op = "create_remittance" /\ last.result = "Ok" /\ last.ret = 2
    /\ Exists(1) /\ Rem(1).is_cancelled /\ Rem(1).current_amount = 500
    /\ Exists(2) /\ Rem(2).id = 2 /\ is_active(Rem(2)) /\ Rem(2).current_amount = 0
    /\ remittance_counter = Some(2)

\* A failed create_remittance: no record, no index entry, no id consumed
NothingCreated == last'.ret = 0 /\ last'.event = None /\ UNCHANGED store

TooLongOrBlank(purpose) == str_len(purpose) > 256 \/ trim_is_empty(purpose)

\* C22 as stated: create_remittance fails with InvalidTargetAmount when
\* target_amount is 0, with PurposeMaxLength when the purpose is longer than 256
\* or empty after trimming, and with InvalidAccountHash when the recipient or the
\* caller is the all-zero principal, and every such failure creates nothing
C22_Original ==
    [][\A caller \in Callers, recipient \in Callers, target_amount \in TargetAmounts,
          purpose \in Purposes, now \in BlockTimes :
          create_remittance_entry(caller, recipient, target_amount, purpose, now) =>
             /\ target_amount = 0 => last'.result = "InvalidTargetAmount"
             /\ TooLongOrBlank(purpose) => last'.result = "PurposeMaxLength"
             /\ (recipient = ZeroAccount \/ caller = ZeroAccount) =>
                   last'.result = "InvalidAccountHash"
             /\ last'.result # "Ok" => NothingCreated
      ]_vars

\* C22 amended: create_remittance fails whenever the contract is paused, the
\* recipient or the caller is the all-zero principal, target_amount is 0, or the
\* purpose is longer than 256 (257 fails, 256 is accepted) or empty after
\* trimming; the error is that of the first of these checks that fails, in this
\* order: ContractPaused, InvalidAccountHash, InvalidTargetAmount,
\* PurposeMaxLength; every failure creates no record, leaves the indexes
\* unchanged and does not advance the id counter
C22_CreateValidation ==
    [][\A caller \in Callers, recipient \in Callers, target_amount \in TargetAmounts,
          purpose \in Purposes, now \in BlockTimes :
          create_remittance_entry(caller, recipient, target_amount, purpose, now) =>
             LET zero == recipient = ZeroAccount \/ caller = ZeroAccount IN
             /\ last'.result =
                   IF is_paused THEN "ContractPaused"
                   ELSE IF zero THEN "InvalidAccountHash"
                   ELSE IF target_amount = 0 THEN "InvalidTargetAmount"
                   ELSE IF TooLongOrBlank(purpose) THEN "PurposeMaxLength"
                   ELSE "Ok"
             /\ (str_len(purpose) = 257 /\ ~is_paused /\ ~zero /\ target_amount # 0) =>
                   last'.result = "PurposeMaxLength"
             /\ (str_len(purpose) = 256 /\ ~is_paused /\ ~zero /\ target_amount # 0) =>
                   last'.result = "Ok"
             /\ last'.result # "Ok" => NothingCreated
      ]_vars

C22_Witness ==
    /\ last.op = "create_remittance" /\ last.result = "PurposeMaxLength"
    /\ last.caller # ZeroAccount /\ last.amount = 1000 /\ ~is_paused
    /\ remittance_counter = Some(1) /\ DOMAIN remittances = {remittance_key(1)}
    /\ Rem(1).purpose = <<Run("a", 255), Run(" ", 1)>>

\* storage.rs get_user_remittances / get_recipient_remittances
CreatedBy(dict, a) == unwrap_or(dictionary_get(dict, account_to_string(a)), <<>>)
IncomingOf(dict, a) == unwrap_or(dictionary_get(dict, account_to_string(a)), <<>>)

Occurrences(dict, id) == SumOver([a \in Callers |-> Count(CreatedBy(dict, a), id)], Callers)

\* Every stored id is once in the created index of its creator, once in the
\* incoming index of its recipient and nowhere else; other ids are in no index
IndexedOnce(rems, created, incoming) ==
    /\ \A id \in RemittanceIds :
          IF ExistsIn(rems, id)
          THEN /\ Occurrences(created, id) = 1
               /\ Occurrences(incoming, id) = 1
               /\ Count(CreatedBy(created, RemIn(rems, id).creator), id) = 1
               /\ Count(IncomingOf(incoming, RemIn(rems, id).recipient), id) = 1
          ELSE Occurrences(created, id) = 0 /\ Occurrences(incoming, id) = 0
    /\ \A a \in Callers :
          /\ \A i \in 1..Len(CreatedBy(created, a)) : CreatedBy(created, a)[i] \in RemittanceIds
          /\ \A i \in 1..Len(IncomingOf(incoming, a)) : IncomingOf(incoming, a)[i] \in RemittanceIds
    /\ DOMAIN created \subseteq {account_to_string(a) : a \in Accounts}
    /\ DOMAIN incoming \subseteq {account_to_string(a) : a \in Accounts}

\* C23: a successful create_remittance persists under the new id a record that
\* is active, has current_amount 0, the caller as creator and the given
\* recipient, target and purpose, appends the id once to the creator's created
\* index and once to the recipient's incoming index (to both lists of one
\* principal when creator and recipient are the same) and leaves every other
\* index list unchanged; in every state each stored id is in exactly one created
\* index and exactly one incoming index
C23_CreateEffect ==
    [][/\ \A caller \in Callers, recipient \in Callers, target_amount \in TargetAmounts,
             purpose \in Purposes \cup {FundedPurpose}, now \in BlockTimes :
             (create_remittance_entry(caller, recipient, target_amount, purpose, now)
                /\ last'.result = "Ok") =>
                LET id == last'.ret
                    r == RemIn(remittances', id)
                IN
                /\ ExistsIn(remittances', id)
                /\ r = [id |-> id, creator |-> caller, recipient |-> recipient,
                        target_amount |-> target_amount, current_amount |-> 0,
                        purpose |-> purpose, created_at |-> now,
                        is_released |-> FALSE, is_cancelled |-> FALSE]
                /\ is_active(r)
                /\ CreatedBy(user_remittances', caller)
                      = Append(CreatedBy(user_remittances, caller), id)
                /\ IncomingOf(recipient_remittances', recipient)
                      = Append(IncomingOf(recipient_remittances, recipient), id)
                /\ OthersUnchanged(user_remittances, user_remittances',
                                   account_to_string(caller))
                /\ OthersUnchanged(recipient_remittances, recipient_remittances',
                                   account_to_string(recipient))
                /\ UNCHANGED <<contributions, contributors, refund_claimed, config, purses>>
       /\ IndexedOnce(remittances', user_remittances', recipient_remittances')
      ]_vars

C23_Witness ==
    /\ last.op = "create_remittance" /\ last.result = "Ok" /\ last.ret = 2
    /\ Rem(2).creator = Rem(2).recipient
    /\ Rem(1).recipient # Rem(1).creator
    /\ CreatedBy(user_remittances, Rem(2).creator) = <<1, 2>>
    /\ IncomingOf(recipient_remittances, Rem(2).recipient) = <<2>>
    /\ IncomingOf(recipient_remittances, Rem(1).recipient) = <<1>>
    /\ Rem(1).current_amount = 500

Terms(r) == <<r.id, r.creator, r.recipient, r.target_amount, r.purpose, r.created_at>>

\* C24: no operation changes the id, creator, recipient, target_amount, purpose
\* or created_at of a stored remittance or removes the record, and target_amount
\* is greater than 0 for every stored remittance
C24_ImmutableTerms ==
    [][\A id \in RemittanceIds :
          /\ Exists(id) =>
                /\ ExistsIn(remittances', id)
                /\ Terms(RemIn(remittances', id)) = Terms(Rem(id))
          /\ ExistsIn(remittances', id) =>
                /\ RemIn(remittances', id).target_amount > 0
                /\ RemIn(remittances', id).id = id
      ]_vars

C24_Witness ==
    /\ last.op = "claim_refund" /\ last.result = "Ok"
    /\ Rem(last.id).is_cancelled /\ Rem(last.id).current_amount = 1500
    /\ platform_fee_bps = 500
    /\ Terms(Rem(last.id)) = <<1, 2, 1, 1000, <<Run("a", 255), Run(" ", 1)>>, 7>>

ContributorsIn(dict, id) == unwrap_or(dictionary_get(dict, remittance_key(id)), <<>>)

\* What contribute accumulates for an id: current_amount, the ledger entries and
\* the contributor list
Funding(rems, ledger_dict, lists, id) ==
    <<IF ExistsIn(rems, id) THEN RemIn(rems, id).current_amount ELSE 0,
      [p \in Callers |-> ContributionIn(ledger_dict, id, p)],
      ContributorsIn(lists, id)>>

Terminal(r) == r.is_released \/ r.is_cancelled

\* C25: current_amount of a remittance is 0 when it is created and never
\* decreases; current_amount, the ledger entries and the contributor list of an
\* id change only in a successful contribute call on that id made while it is
\* active, and no step changes them once the remittance is released or cancelled
\* (a release and a refund claim leave them as they are)
C25_FundingMonotoneAndFrozen ==
    [][\A id \in RemittanceIds :
          LET before == Funding(remittances, contributions, contributors, id)
              after == Funding(remittances', contributions', contributors', id)
          IN
          /\ ~Exists(id) => before = <<0, [p \in Callers |-> 0], <<>>>>
          /\ (~Exists(id) /\ ExistsIn(remittances', id)) => after = before
          /\ after[1] >= before[1]
          /\ \A p \in Callers : after[2][p] >= before[2][p]
          /\ after # before =>
                /\ last'.op = "contribute" /\ last'.result = "Ok" /\ last'.id = id
                /\ Exists(id) /\ ~Terminal(Rem(id))
          /\ (Exists(id) /\ Terminal(Rem(id))) => after = before
          /\ (last'.op \in {"release_funds", "claim_refund"}) => after = before
      ]_vars

C25_Witness ==
    /\ last.op = "claim_refund" /\ last.result = "Ok"
    /\ Funding(remittances, contributions, contributors, last.id)
          = <<1500, [p \in Callers |-> IF p = last.caller THEN 500
                                       ELSE IF p = ZeroAccount THEN 0 ELSE 1000],
              <<1, 2>>>>
    /\ contract_purse = 1000

\* C26: a cancel_remittance call on a stored id succeeds exactly when the
\* contract is not paused, the caller is the creator and the remittance is
\* neither released nor cancelled, whatever has been contributed; a successful
\* call sets is_cancelled and changes nothing else: no transfer is made, and the
\* purses, current_amount, the ledger entries, the contributor lists, the refund
\* markers, the indexes, the counter and the configuration are unchanged
C26_CancelFrame ==
    [][(Answered({"cancel_remittance"}) /\ Exists(last'.id)) =>
          LET id == last'.id
              r == Rem(id)
          IN
          /\ last'.result = "Ok" <=>
                (~is_paused /\ last'.caller = r.creator /\ ~Terminal(r))
          /\ last'.result = "Ok" =>
                /\ RemIn(remittances', id) = [r EXCEPT !.is_cancelled = TRUE]
                /\ RemIn(remittances', id).current_amount = r.current_amount
                /\ ~RemIn(remittances', id).is_released
                /\ OthersUnchanged(remittances, remittances', remittance_key(id))
                /\ DOMAIN remittances' = DOMAIN remittances
                /\ last'.transfers = <<>>
                /\ UNCHANGED <<remittance_counter, contributions, contributors,
                               refund_claimed, user_remittances, recipient_remittances,
                               config, purses>>
      ]_vars

C26_Witness ==
    /\ last.op = "cancel_remittance" /\ last.result = "Ok"
    /\ Rem(last.id).is_cancelled /\ ~Rem(last.id).is_released
    /\ Rem(last.id).current_amount = 1500 /\ Rem(last.id).target_amount = 1000
    /\ contract_purse = 1500
    /\ \A p \in Accounts : ~is_refund_claimed(last.id, p)

ClaimedTotal(id) ==
    SumOver([p \in Callers |-> IF is_refund_claimed(id, p) THEN get_contribution(id, p) ELSE 0],
            Callers)

\* C27: a contribute call with a non-zero amount on a remittance that is neither
\* released nor cancelled and already has current_amount >= target_amount
\* succeeds (when the contract is not paused and the payment is received) and
\* raises current_amount further above the target; a release pays out the whole
\* current_amount as fee plus payout, not target_amount; the refunds paid from a
\* cancelled remittance are the whole ledger entries of the claimants, so that
\* they add up to current_amount once every contributor has claimed
C27_OverFunding ==
    [][/\ (Answered({"contribute"}) /\ ~is_paused /\ last'.amount > 0 /\ Exists(last'.id)
             /\ ~Terminal(Rem(last'.id))
             /\ Rem(last'.id).current_amount >= Rem(last'.id).target_amount) =>
             /\ last'.result \in {"Ok", "TransferFailed"}
             /\ last'.result = "TransferFailed" <=> IsNone(last'.event)
             /\ last'.result = "Ok" =>
                   /\ RemIn(remittances', last'.id).current_amount
                         = Rem(last'.id).current_amount + last'.amount
                   /\ RemIn(remittances', last'.id).current_amount
                         > Rem(last'.id).target_amount
       /\ (Answered({"release_funds"}) /\ last'.result = "Ok") =>
             /\ unwrap(last'.event).amount + unwrap(last'.event).platform_fee
                   = Rem(last'.id).current_amount
             /\ contract_purse - contract_purse' = Rem(last'.id).current_amount
       /\ \A id \in RemittanceIds :
             (ExistsIn(remittances', id) /\ RemIn(remittances', id).is_cancelled) =>
                /\ \A p \in Callers :
                      RefundedIn(outflow', id, p) =
                         IF unwrap_or(dictionary_get(refund_claimed', composite_key(id, p)),
                                      FALSE)
                         THEN ContributionIn(contributions', id, p) ELSE 0
                /\ (\A p \in Callers :
                       ContributionIn(contributions', id, p) > 0 =>
                          unwrap_or(dictionary_get(refund_claimed', composite_key(id, p)),
                                    FALSE)) =>
                      SumOver([p \in Callers |-> RefundedIn(outflow', id, p)], Callers)
                         = RemIn(remittances', id).current_amount
      ]_vars

C27_Witness ==
    /\ last.op = "claim_refund" /\ last.result = "Ok"
    /\ Rem(last.id).is_cancelled
    /\ Rem(last.id).current_amount = 1500 /\ Rem(last.id).target_amount = 1000
    /\ RefundedToAll(last.id) = 1500 /\ ClaimedTotal(last.id) = 1500
    /\ contract_purse = 0

\* The call just answered repeats an operation whose effect is already stored
RetryOfRelease ==
    /\ last'.op = "release_funds" /\ Exists(last'.id)
    /\ last'.caller = Rem(last'.id).recipient /\ Rem(last'.id).is_released
RetryOfCancel ==
    /\ last'.op = "cancel_remittance" /\ Exists(last'.id)
    /\ last'.caller = Rem(last'.id).creator /\ Rem(last'.id).is_cancelled
RetryOfClaim ==
    /\ last'.op = "claim_refund"
    /\ refunded_total(last'.id, last'.caller) > 0

NoEffect == last'.transfers = <<>> /\ last'.event = None /\ UNCHANGED store

\* C28 as stated: the recipient repeating release_funds on a released id gets
\* AlreadyReleased, the creator repeating cancel_remittance on a cancelled id
\* gets RemittanceCancelled, a contributor repeating claim_refund after a
\* successful claim gets RefundAlreadyClaimed, and the state is unchanged
C28_Original ==
    [][(last = Idle) =>
          /\ RetryOfRelease => (last'.result = "AlreadyReleased" /\ NoEffect)
          /\ RetryOfCancel => (last'.result = "RemittanceCancelled" /\ NoEffect)
          /\ RetryOfClaim => (last'.result = "RefundAlreadyClaimed" /\ NoEffect)
      ]_vars

\* C28 amended: the recipient repeating release_funds on a released id, the
\* creator repeating cancel_remittance on a cancelled id and a contributor
\* repeating claim_refund after a successful claim all fail and leave the state
\* as it was; the error is AlreadyReleased, RemittanceCancelled and
\* RefundAlreadyClaimed respectively when the contract is not paused, and
\* ContractPaused when it is
C28_RetryIsNoOp ==
    [][(last = Idle) =>
          /\ RetryOfRelease =>
                /\ last'.result = IF is_paused THEN "ContractPaused" ELSE "AlreadyReleased"
                /\ NoEffect
          /\ RetryOfCancel =>
                /\ last'.result = IF is_paused THEN "ContractPaused"
                                  ELSE "RemittanceCancelled"
                /\ NoEffect
          /\ RetryOfClaim =>
                /\ last'.result = IF is_paused THEN "ContractPaused"
                                  ELSE "RefundAlreadyClaimed"
                /\ NoEffect
      ]_vars

C28_Witness ==
    /\ last.op = "release_funds" /\ last.result = "AlreadyReleased"
    /\ last.caller = Rem(last.id).recipient /\ Rem(last.id).is_released
    /\ released_total(last.id) = 1500 /\ contract_purse = 0
    /\ ~is_paused

Mutating == {"create_remittance", "contribute", "release_funds", "cancel_remittance",
             "claim_refund", "set_platform_fee", "pause_contract", "unpause_contract"}

\* The notification a successful call must carry, from the state before the
\* call (unprimed) and the state after it (primed)
ExpectedEvent ==
    LET id == last'.id
        p == last'.caller
        r == RemIn(remittances', id)
    IN CASE last'.op = "create_remittance" ->
              [name |-> "RemittanceCreated", remittance_id |-> last'.ret, creator |-> p,
               recipient |-> r.recipient, target_amount |-> r.target_amount,
               purpose |-> r.purpose]
         [] last'.op = "contribute" ->
              [name |-> "ContributionMade", remittance_id |-> id, contributor |-> p,
               amount |-> last'.amount, new_total |-> r.current_amount]
         [] last'.op = "release_funds" ->
              [name |-> "FundsReleased", remittance_id |-> id, recipient |-> r.recipient,
               amount |-> r.current_amount
                            - ((r.current_amount * platform_fee_bps) \div BASIS_POINTS),
               platform_fee |-> (r.current_amount * platform_fee_bps) \div BASIS_POINTS]
         [] last'.op = "cancel_remittance" ->
              [name |-> "RemittanceCancelled", remittance_id |-> id, creator |-> r.creator,
               total_amount |-> r.current_amount]
         [] last'.op = "claim_refund" ->
              [name |-> "RefundClaimed", remittance_id |-> id, contributor |-> p,
               amount |-> contract_purse - contract_purse']
         [] last'.op = "set_platform_fee" ->
              [name |-> "PlatformFeeUpdated", old_fee_bps |-> platform_fee_bps,
               new_fee_bps |-> platform_fee_bps']
         [] last'.op = "pause_contract" -> [name |-> "ContractPaused"]
         [] last'.op = "unpause_contract" -> [name |-> "ContractUnpaused"]

\* C29: every call of a mutating operation that succeeds emits exactly one
\* notification, as its last step, carrying the operation's ids, principals and
\* amounts, and a call that fails emits none; for contribute the reported
\* new_total is the stored current_amount, and for release_funds the reported
\* amount plus platform_fee is current_amount
C29_OneNotification ==
    [][Answered(Mutating) =>
          LET n == Len(last'.steps)
              emitted == Count(last'.steps, "emit")
          IN
          /\ last'.result = "Ok" =>
                /\ emitted = 1
                /\ last'.steps[IF last'.op = "create_remittance" THEN n - 1 ELSE n] = "emit"
                /\ last'.event = Some(ExpectedEvent)
                /\ last'.op = "contribute" =>
                      unwrap(last'.event).new_total
                         = RemIn(remittances', last'.id).current_amount
                /\ last'.op = "release_funds" =>
                      /\ unwrap(last'.event).amount + unwrap(last'.event).platform_fee
                            = RemIn(remittances', last'.id).current_amount
                      /\ unwrap(last'.event).amount >= 0
                      /\ unwrap(last'.event).platform_fee >= 0
          /\ last'.result # "Ok" => (emitted = 0 /\ last'.event = None)
      ]_vars

C29_Witness ==
    /\ last.op = "contribute" /\ last.result = "Ok"
    /\ last.steps[Len(last.steps)] = "emit"
    /\ unwrap(last.event).new_total = 1000 /\ unwrap(last.event).amount = 500
    /\ unwrap(last.event).contributor = 2
    /\ Rem(last.id).current_amount = 1000

OutboundTransfers == {"transfer_fee", "transfer_payout"}

\* C30: a release_funds call that passes its checks first stores the record
\* with is_released set, then requests the fee transfer to the fee collector
\* (no fee transfer is requested when the fee is exactly zero), then the payout
\* transfer to the recipient; no outbound transfer is requested in a
\* release_funds call before the record with is_released set has been stored,
\* and a call that fails a check requests none
C30_ReleaseStepOrder ==
    [][Answered({"release_funds"}) =>
          LET s == last'.steps
              r == Rem(last'.id)
              fee == (r.current_amount * platform_fee_bps) \div BASIS_POINTS
              payout == r.current_amount - fee
              full == <<"store_remittance">>
                         \o (IF fee = 0 THEN <<>> ELSE <<"transfer_fee">>)
                         \o <<"transfer_payout", "emit">>
          IN
          /\ (\E i \in 1..Len(s) : s[i] \in OutboundTransfers) =>
                s[1] = "store_remittance"
          /\ Precedes(s, {"store_remittance"}, OutboundTransfers)
          /\ Precedes(s, {"transfer_fee"}, {"transfer_payout"})
          /\ last'.result = "Ok" =>
                /\ s = full
                /\ ~r.is_released /\ RemIn(remittances', last'.id).is_released
                /\ last'.transfers =
                      (IF fee = 0 THEN <<>> ELSE <<Transfer(Escrow, fee_collector, fee)>>)
                      \o <<Transfer(Escrow, r.recipient, payout)>>
          /\ last'.result = "TransferFailed" =>
                /\ ~r.is_released
                /\ \E n \in 2..3 : s = SubSeq(full, 1, n) /\ s[n] \in OutboundTransfers
          /\ last'.result \notin {"Ok", "TransferFailed"} =>
                (s = <<>> /\ last'.transfers = <<>>)
      ]_vars

C30_Witness ==
    /\ last.op = "release_funds" /\ last.result = "Ok"
    /\ platform_fee_bps = 0
    /\ last.steps = <<"store_remittance", "transfer_payout", "emit">>
    /\ last.transfers = <<Transfer(Escrow, Rem(last.id).recipient, 1000)>>
    /\ Rem(last.id).is_released

\* What the contract purse owes on account of one id: the whole current_amount
\* while the remittance is active, the ledger entries not yet refunded once it is
\* cancelled, nothing once it is released
Owed(id) ==
    IF ~Exists(id) \/ Rem(id).is_released THEN 0
    ELSE IF Rem(id).is_cancelled
         THEN SumOver([p \in Callers |-> IF is_refund_claimed(id, p) THEN 0
                                         ELSE get_contribution(id, p)], Callers)
    ELSE Rem(id).current_amount

\* C33: in every reachable state (a call whose transfer fails is discarded as a
\* whole, so also after failed transfers) the balance of the contract purse
\* equals the sum of current_amount over the active remittances plus, over the
\* cancelled remittances, the sum of the ledger entries whose refund marker is
\* not set; hence the purse covers every release and every refund that passes
\* its precondition checks
C33_EscrowConservation ==
    /\ contract_purse = SumOver([id \in RemittanceIds |-> Owed(id)], RemittanceIds)
    /\ \A id \in RemittanceIds :
          Exists(id) =>
             /\ (~Terminal(Rem(id)) /\ Rem(id).current_amount >= Rem(id).target_amount) =>
                   contract_purse >= Rem(id).current_amount
             /\ \A p \in Callers :
                   (Rem(id).is_cancelled /\ get_contribution(id, p) > 0
                      /\ ~is_refund_claimed(id, p)) =>
                      contract_purse >= get_contribution(id, p)

C33_Witness ==
    /\ last.op = "release_funds" /\ last.result = "TransferFailed"
    /\ ~Terminal(Rem(last.id)) /\ Rem(last.id).current_amount = 1000
    /\ \E a \in RemittanceIds, p \in Accounts, q \in Accounts :
          /\ a # last.id /\ Exists(a) /\ Rem(a).is_cancelled
          /\ is_refund_claimed(a, p) /\ get_contribution(a, p) = 500
          /\ p # q /\ ~is_refund_claimed(a, q) /\ get_contribution(a, q) > 0
    /\ contract_purse > 1000

\* C34: in every reachable state a principal is in the contributor list of an id
\* if and only if its ledger entry for the id is non-zero, and the list holds
\* each principal at most once however often that principal has contributed
C34_ContributorsMatchLedger ==
    /\ \A id \in RemittanceIds, p \in Callers :
          /\ Contains(get_contributors(id), p) <=> get_contribution(id, p) # 0
          /\ Count(get_contributors(id), p) <= 1
    /\ \A id \in RemittanceIds : get_contributors(id) # <<>> => Exists(id)
    /\ \A k \in DOMAIN contributors : \E id \in RemittanceIds : k = remittance_key(id)

C34_Witness ==
    /\ last.op = "contribute" /\ last.result = "Ok" /\ last.caller = 1
    /\ get_contributors(last.id) = <<1, 2>>
    /\ get_contribution(last.id, 1) = 1000 /\ get_contribution(last.id, 2) = 500
    /\ balances[1] = 0

\* The stored ids are exactly 1..counter
Contiguous(counter, rems) ==
    /\ unwrap_or(counter, 0) = Cardinality(DOMAIN rems)
    /\ \A id \in RemittanceIds : ExistsIn(rems, id) <=> id <= unwrap_or(counter, 0)
    /\ \A key \in DOMAIN rems : \E id \in RemittanceIds : key = remittance_key(id)

\* C35: the first successful create_remittance returns 1 and the n-th returns n;
\* in every state the stored counter equals the number of stored remittances,
\* whose ids are 1..counter; a create_remittance that fails (paused, zero
\* principal, zero target, bad purpose) leaves the counter and the set of stored
\* ids as they were
C35_ContiguousIds ==
    /\ Contiguous(remittance_counter, remittances)
    /\ [][/\ Contiguous(remittance_counter', remittances')
          /\ Answered({"create_remittance"}) =>
                IF last'.result = "Ok"
                THEN /\ last'.ret = Cardinality(DOMAIN remittances) + 1
                     /\ remittance_counter = None => last'.ret = 1
                     /\ remittance_counter' = Some(last'.ret)
                     /\ DOMAIN remittances' = DOMAIN remittances \cup {remittance_key(last'.ret)}
                ELSE /\ last'.result \in {"ContractPaused", "InvalidAccountHash",
                                          "InvalidTargetAmount", "PurposeMaxLength"}
                     /\ last'.ret = 0
                     /\ remittance_counter' = remittance_counter
                     /\ remittances' = remittances
          /\ ~Answered({"create_remittance"}) =>
                (remittance_counter' = remittance_counter
                   /\ DOMAIN remittances' = DOMAIN remittances)
         ]_vars

C35_Witness ==
    /\ last.op = "create_remittance" /\ last.result = "Ok" /\ last.ret = 2
    /\ remittance_counter = Some(2)
    /\ DOMAIN remittances = {remittance_key(1), remittance_key(2)}
    /\ Rem(1).is_cancelled /\ Rem(1).creator # Rem(2).creator
    /\ is_paused = FALSE

\* The call just answered, on a stored remittance whose target is met
ReleaseByRecipient ==
    /\ last'.op = "release_funds" /\ Exists(last'.id)
    /\ last'.caller = Rem(last'.id).recipient
    /\ Rem(last'.id).current_amount >= Rem(last'.id).target_amount
CancelByCreator ==
    /\ last'.op = "cancel_remittance" /\ Exists(last'.id)
    /\ last'.caller = Rem(last'.id).creator
    /\ Rem(last'.id).current_amount >= Rem(last'.id).target_amount

\* C36 as stated: on an active remittance whose target is met, whichever of
\* release_funds by the recipient and cancel_remittance by the creator is
\* executed first succeeds, and the other then fails: cancel after release with
\* AlreadyReleased, release after cancel with RemittanceCancelled
C36_Original ==
    [][(last = Idle) =>
          /\ (ReleaseByRecipient /\ ~Terminal(Rem(last'.id))) => last'.result = "Ok"
          /\ (CancelByCreator /\ ~Terminal(Rem(last'.id))) => last'.result = "Ok"
          /\ (CancelByCreator /\ Rem(last'.id).is_released) =>
                last'.result = "AlreadyReleased"
          /\ (ReleaseByRecipient /\ Rem(last'.id).is_cancelled) =>
                last'.result = "RemittanceCancelled"
      ]_vars

\* C36 amended: on an active remittance whose target is met and while the
\* contract is not paused, cancel_remittance by the creator succeeds and
\* release_funds by the recipient succeeds unless one of its transfers fails, in
\* which case nothing changes and the remittance stays active; once one of the
\* two has succeeded the other fails and changes nothing, cancel after release
\* with AlreadyReleased and release after cancel with RemittanceCancelled
\* (ContractPaused when the contract is paused); a remittance never has both
\* flags set
C36_ReleaseCancelExclusion ==
    [][(last = Idle) =>
          /\ (ReleaseByRecipient /\ ~Terminal(Rem(last'.id))) =>
                /\ IF is_paused THEN last'.result = "ContractPaused"
                   ELSE last'.result \in {"Ok", "TransferFailed"}
                /\ last'.result = "Ok" =>
                      (RemIn(remittances', last'.id).is_released
                         /\ ~RemIn(remittances', last'.id).is_cancelled)
                /\ last'.result # "Ok" => UNCHANGED store
          /\ (CancelByCreator /\ ~Terminal(Rem(last'.id))) =>
                /\ last'.result = IF is_paused THEN "ContractPaused" ELSE "Ok"
                /\ last'.result = "Ok" =>
                      (RemIn(remittances', last'.id).is_cancelled
                         /\ ~RemIn(remittances', last'.id).is_released)
                /\ last'.result # "Ok" => UNCHANGED store
          /\ (CancelByCreator /\ Rem(last'.id).is_released) =>
                /\ last'.result = IF is_paused THEN "ContractPaused" ELSE "AlreadyReleased"
                /\ UNCHANGED store
          /\ (ReleaseByRecipient /\ Rem(last'.id).is_cancelled) =>
                /\ last'.result = IF is_paused THEN "ContractPaused"
                                  ELSE "RemittanceCancelled"
                /\ UNCHANGED store
          /\ \A id \in RemittanceIds :
                ExistsIn(remittances', id) =>
                   ~(RemIn(remittances', id).is_released
                       /\ RemIn(remittances', id).is_cancelled)
      ]_vars

C36_Witness ==
    /\ last.op = "release_funds" /\ last.result = "RemittanceCancelled"
    /\ last.caller = Rem(last.id).recipient
    /\ Rem(last.id).is_cancelled /\ ~Rem(last.id).is_released
    /\ Rem(last.id).current_amount = 1000 /\ Rem(last.id).target_amount = 1000
    /\ contract_purse = 1000

\* C37: pause_contract and unpause_contract called by the owner succeed whether
\* the contract is paused or not, set the flag to true and to false respectively
\* (pausing a paused contract leaves it paused, unpausing an unpaused one leaves
\* it unpaused) and change no remittance, ledger entry, marker, index, fee,
\* owner, collector or balance; in every paused state in which the host accepts
\* a call, the owner's unpause_contract is possible and clears the flag, so no
\* paused state is permanent
C37_PauseUnpause ==
    /\ [](( is_paused /\ last = Idle) =>
             ENABLED (unpause_contract_entry(contract_owner) /\ ~is_paused'))
    /\ [][(Answered({"pause_contract", "unpause_contract"})
             /\ last'.caller = contract_owner) =>
             /\ last'.result = "Ok"
             /\ is_paused' = (last'.op = "pause_contract")
             /\ UNCHANGED <<ledger, platform_fee_bps, fee_collector, contract_owner, purses>>
         ]_vars

C37_Witness ==
    /\ last.op = "unpause_contract" /\ last.result = "Ok" /\ ~is_paused
    /\ \E id \in RemittanceIds :
          /\ Exists(id) /\ Rem(id).is_cancelled
          /\ Rem(id).current_amount = 1500 /\ contract_purse = 1000
    /\ platform_fee_bps = 500

\* What the ledger holds for one remittance id: its record, its contributor
\* list and, per principal, the contribution entry and the refund marker
SliceOf(rems, contribs, lists, marks, id) ==
    [record |-> dictionary_get(rems, remittance_key(id)),
     list |-> dictionary_get(lists, remittance_key(id)),
     entries |-> [p \in Callers |-> dictionary_get(contribs, composite_key(id, p))],
     markers |-> [p \in Callers |-> dictionary_get(marks, composite_key(id, p))]]

\* C38: a contribute, release_funds, cancel_remittance or claim_refund call on
\* id A, successful or not, leaves the record, the contribution entries, the
\* contributor list and the refund markers of every other id B unchanged, and
\* a create_remittance call leaves all of these unchanged for every remittance
\* that existed before it
C38_CrossRemittanceIsolation ==
    [][/\ Answered({"contribute", "release_funds", "cancel_remittance", "claim_refund"}) =>
            \A B \in RemittanceIds \ {last'.id} :
                SliceOf(remittances', contributions', contributors', refund_claimed', B)
                = SliceOf(remittances, contributions, contributors, refund_claimed, B)
       /\ Answered({"create_remittance"}) =>
            \A B \in RemittanceIds :
                Exists(B) =>
                    SliceOf(remittances', contributions', contributors', refund_claimed', B)
                    = SliceOf(remittances, contributions, contributors, refund_claimed, B)
      ]_vars

C38_Witness ==
    /\ last.op = "claim_refund" /\ last.result = "Ok" /\ last.id = 2
    /\ Exists(1) /\ Rem(1).is_released /\ Rem(1).current_amount = 1000
    /\ get_contribution(1, last.caller) > 0
    /\ ~is_refund_claimed(1, last.caller)
    /\ is_refund_claimed(2, last.caller)

Views == {"get_remittance", "get_contribution", "is_refund_claimed", "get_platform_fee"}
OnUnknownId ==
    /\ Answered({"contribute", "release_funds", "cancel_remittance", "claim_refund",
                 "get_remittance"})
    /\ ~Exists(last'.id)
    /\ (last'.op = "contribute" => last'.amount # 0)
NoContributionEntry(id, p) == composite_key(id, p) \notin DOMAIN contributions
NoMarkerEntry(id, p) == composite_key(id, p) \notin DOMAIN refund_claimed

ReadsOfAbsentEntries ==
    /\ (Answered({"get_contribution"}) /\ NoContributionEntry(last'.id, last'.caller)) =>
          (last'.result = "Ok" /\ last'.value = 0)
    /\ (Answered({"is_refund_claimed"}) /\ NoMarkerEntry(last'.id, last'.caller)) =>
          (last'.result = "Ok" /\ last'.value = FALSE)
    /\ Answered(Views) =>
          /\ UNCHANGED store
          /\ last'.result # "ContractPaused"

\* C32 as stated: contribute with a non-zero amount, release_funds,
\* cancel_remittance, claim_refund and get_remittance on an id that was never
\* created fail with RemittanceNotFound and change no state; get_contribution
\* and is_refund_claimed return 0 and false for a pair with no entry; reads
\* never change state and are not blocked by pause
C32_Original ==
    [][/\ OnUnknownId => (last'.result = "RemittanceNotFound" /\ UNCHANGED store)
       /\ ReadsOfAbsentEntries
      ]_vars

\* C32 amended: on an id that was never created, get_remittance fails with
\* RemittanceNotFound whether the contract is paused or not, and contribute
\* with a non-zero amount, release_funds, cancel_remittance and claim_refund
\* fail with RemittanceNotFound when the contract is not paused and with
\* ContractPaused when it is; all of them change no state; get_contribution and
\* is_refund_claimed return 0 and false for a pair with no entry; reads never
\* change state and are not blocked by pause
C32_UnknownId ==
    [][/\ OnUnknownId =>
            /\ last'.result = IF is_paused /\ last'.op # "get_remittance"
                              THEN "ContractPaused" ELSE "RemittanceNotFound"
            /\ UNCHANGED store
       /\ ReadsOfAbsentEntries
      ]_vars

C32_Witness ==
    /\ last.op = "get_contribution" /\ last.result = "Ok" /\ last.value = 0
    /\ is_paused
    /\ Exists(1) /\ Rem(1).current_amount = 500 /\ ~Exists(last.id)
    /\ last.caller \in Accounts /\ get_contribution(1, last.caller) = 500

NestedStep == InProgress /\ Len(last'.nested) > Len(last.nested)
LastNested == last'.nested[Len(last'.nested)]

\* C31: a claim_refund by the same principal on the same id that is entered
\* while the refund transfer of claim_refund is in progress fails with
\* RefundAlreadyClaimed and pays nothing, because the marker is already set at
\* that point; at every moment, also while a transfer is in progress, what a
\* principal has been refunded for a remittance is at most their ledger amount
C31_ReentrantClaimFails ==
    /\ [](\A id \in SharedIds, p \in Accounts :
             /\ refunded_total(id, p) <= get_contribution(id, p)
             /\ (InProgress /\ id = last.id /\ p = last.caller) =>
                    is_refund_claimed(id, p))
    /\ [][(NestedStep /\ LastNested.id = last.id) =>
             /\ LastNested.caller = last.caller
             /\ LastNested.result = "RefundAlreadyClaimed"
             /\ purses' = (IF InProgress' THEN purses
                           ELSE <<last.saved.contract_purse, last.saved.balances,
                                  last.saved.outflow>>)
         ]_vars

C31_Witness ==
    /\ InProgress
    /\ Len(last.nested) = 2
    /\ last.nested[1].id # last.id /\ last.nested[1].result = "Ok"
    /\ last.nested[2].id = last.id /\ last.nested[2].result = "RefundAlreadyClaimed"
    /\ contract_purse >= get_contribution(last.id, last.caller)
    /\ refunded_total(last.id, last.caller) = 0

ExactPercentage(r) == Min(100, (r.current_amount * 100) \div r.target_amount)
RemainingAndTargetMet ==
    /\ last.op = "remaining_amount" =>
          /\ last.value = IF Rem(1).current_amount < Rem(1).target_amount
                          THEN Rem(1).target_amount - Rem(1).current_amount ELSE 0
          /\ is_target_met(Rem(1)) <=> last.value = 0
    /\ last.op = "is_target_met" =>
          (last.value <=> remaining_amount(Rem(1)) = 0)

\* C39 as stated: progress_percentage returns min(100, floor(current_amount *
\* 100 / target_amount)), a value in 0..100, for every current_amount and every
\* target_amount > 0, amounts wider than a word included; remaining_amount
\* returns target_amount - current_amount when current_amount < target_amount
\* and 0 otherwise, so that is_target_met holds exactly when it is 0
C39_Original ==
    /\ last.op = "progress_percentage" =>
          /\ last.result = "Ok"
          /\ last.value = ExactPercentage(Rem(1))
          /\ last.value \in 0..100
    /\ RemainingAndTargetMet

\* C39, what the code computes: whenever progress_percentage returns, the value
\* is in 0..100; it returns min(100, floor(current_amount * 100 /
\* target_amount)) when target_amount fits a word and current_amount * 100 does
\* too, and it does not panic when both amounts fit a word; remaining_amount
\* and is_target_met are as stated
C39_ProgressWithinWord ==
    /\ last.op = "progress_percentage" =>
          /\ last.result \in {"Ok", "Panic"}
          /\ last.result = "Ok" => last.value \in 0..100
          /\ (Rem(1).current_amount <= U64_MAX /\ Rem(1).target_amount <= U64_MAX) =>
                last.result = "Ok"
          /\ (Rem(1).current_amount * 100 <= U64_MAX /\ Rem(1).target_amount <= U64_MAX) =>
                last.value = ExactPercentage(Rem(1))
    /\ RemainingAndTargetMet

C39_Witness ==
    /\ last.op = "progress_percentage" /\ last.result = "Ok" /\ last.value = 50
    /\ Rem(1).current_amount = 1 /\ Rem(1).target_amount = 2
    /\ remaining_amount(Rem(1)) = 1 /\ ~is_target_met(Rem(1))
====
